---- MODULE Spec2Model ----
(***************************************************************************)
(* Model of the exhibitor-table loader, src/utils/csvLoader.ts             *)
(* (parseBrandsCSV, lines 4-88).                                           *)
(*                                                                         *)
(* A JavaScript string is a sequence of one-character strings, so that     *)
(* splitting, trimming, quote stripping and the template string that       *)
(* builds a brand id are computed character by character.  A Brand is an   *)
(* object on a heap; a hall's brands list and the brand-identity map hold  *)
(* references (heap positions), as the code's brandMap and brands arrays   *)
(* hold references to the same object.                                     *)
(***************************************************************************)
EXTENDS Integers, Sequences, FiniteSets, TLC

VARIABLES
    pc,             \* position of the async function parseBrandsCSV
    skeletonHalls,  \* the argument skeletonHalls
    body,           \* the text the resource would deliver
    response,       \* the Response of the settled fetch (its ok flag)
    text,           \* const text
    rows,           \* const rows
    next,           \* position of rows.forEach (next row to visit)
    updatedHalls,   \* const updatedHalls
    brandMap,       \* const brandMap
    heap,           \* the Brand objects
    error,          \* what the catch block caught, "none" if it did not run
    result,         \* the settlement of the returned promise
    rowCols,        \* const cols of the latest forEach callback
    calls,          \* how many times the function has been called
    previous,       \* what the call before this one returned
    appHalls,       \* App: the state halls (the content of the array)
    hallsRef,       \* App: which array object the state halls is
    isLoading,      \* App: the state isLoading
    loadPc,         \* App: position of the async function loadData
    selectedHallId, \* App: the state selectedHallId
    highlightedBrandId, \* App: the state highlightedBrandId
    isSearchOpen,   \* App: the state isSearchOpen
    scale,          \* MapCanvas: the state scale, in hundredths
    position,       \* MapCanvas: the state position
    innerWidth,     \* window.innerWidth
    isDragging,     \* MapCanvas: isDragging.current
    startPos,       \* MapCanvas: startPos.current
    dragStartPos,   \* MapCanvas: dragStartPos.current
    lastPos,        \* MapCanvas: lastPos.current
    listening,      \* MapCanvas: the window listeners of lines 58-59 are set
    timers,         \* MapCanvas: pending timers of line 86
    clickPending,   \* the click that follows a pointer-up is not yet dispatched
    moved,          \* the pointer went beyond the threshold in this gesture
    expandedBrands, \* Sidebar: the state expandedBrands
    rendered        \* Sidebar: the dependencies [hall] and [highlightedBrandId,
                    \* hall] of the last render whose effects have run

vars == <<pc, skeletonHalls, body, response, text, rows, next,
          updatedHalls, brandMap, heap, error, result, rowCols, calls, previous,
          appHalls, hallsRef, isLoading, loadPc, selectedHallId, highlightedBrandId,
          isSearchOpen, scale, position, innerWidth, isDragging, startPos,
          dragStartPos, lastPos, listening, timers, clickPending, moved,
          expandedBrands, rendered>>

(***************************************************************************)
(* Characters and JavaScript values                                        *)
(***************************************************************************)
Quote == "\""
Comma == ","
LF == "\n"
CR == "\r"
Dash == "-"
TAB == "\t"
FF == "\f"
VT == ""
NBSP == " "
ZWNBSP == "﻿"
OghamSpace == " "

\* What String.prototype.trim removes: the WhiteSpace and LineTerminator
\* code points of ECMAScript.  U+0009, U+000B, U+000C, U+0020, U+00A0, U+FEFF,
\* U+1680, U+000A and U+000D are here; U+2000 to U+200A, U+2028, U+2029,
\* U+202F, U+205F and U+3000 cannot be written in a string of this language,
\* so no string of the model holds one of them.
Whitespace == {TAB, VT, FF, " ", NBSP, ZWNBSP, OghamSpace, LF, CR}

\* The value undefined: a one-element sequence that is no character string.
Undefined == <<"undefined">>

\* Truthiness of a string-or-undefined value: if (note), if (modelName), tag || ''
Truthy(v) == v # Undefined /\ v # <<>>

SetMin(S) == CHOOSE x \in S : \A y \in S : x <= y
SetMax(S) == CHOOSE x \in S : \A y \in S : x >= y

(***************************************************************************)
(* String.prototype.split with the separators at the positions seps:       *)
(* the pieces of s between consecutive separator positions.                *)
(***************************************************************************)
RECURSIVE SplitAt(_, _, _)
SplitAt(s, seps, from) ==
    LET later == {p \in seps : p >= from}
    IN  IF later = {}
        THEN << SubSeq(s, from, Len(s)) >>
        ELSE LET p == SetMin(later)
             IN  << SubSeq(s, from, p - 1) >> \o SplitAt(s, seps, p + 1)

\* text.split('\n')
SplitLines(t) == SplitAt(t, {p \in 1..Len(t) : t[p] = LF}, 1)

\* a trim of the front only (trimStart)
TrimStartOnly(s) ==
    LET ns == {p \in 1..Len(s) : s[p] \notin Whitespace}
    IN  IF ns = {} THEN <<>> ELSE SubSeq(s, SetMin(ns), Len(s))

\* String.prototype.trim
Trim(s) ==
    LET ns == {p \in 1..Len(s) : s[p] \notin Whitespace}
    IN  IF ns = {} THEN <<>> ELSE SubSeq(s, SetMin(ns), SetMax(ns))

NonBlank(r) == Trim(r) # <<>>

\* Array.prototype.filter with the predicate r => r.trim() !== '', keeping order
RECURSIVE FilterNonBlank(_)
FilterNonBlank(s) ==
    IF s = <<>> THEN <<>>
    ELSE (IF NonBlank(Head(s)) THEN <<Head(s)>> ELSE <<>>) \o FilterNonBlank(Tail(s))

\* line 10 without slice(1): the first line is kept as a row
RowsOfKeepFirst(t) == FilterNonBlank(SplitLines(t))

\* line 10: text.split('\n').slice(1).filter(r => r.trim() !== '')
\* (slice(1) of the one-element split of a text without newline is empty)
RowsOf(t) == FilterNonBlank(Tail(SplitLines(t)))

(***************************************************************************)
(* Line 22: the separator regex /,(?=(?:(?:[^"]*"){2})*[^"]*$)/ matches a  *)
(* comma exactly when the rest of the row after it holds an even number of *)
(* double-quote characters.                                                *)
(***************************************************************************)
QuotesAfter(row, p) == Cardinality({q \in (p + 1)..Len(row) : row[q] = Quote})

\* the separators of row.split(','): every comma
RowSeparatorsPlain(row) == {p \in 1..Len(row) : row[p] = Comma}

RowSeparators(row) ==
    {p \in 1..Len(row) : row[p] = Comma /\ QuotesAfter(row, p) % 2 = 0}

\* val.replace('""', '"'): only the first match is replaced
RECURSIVE ReplaceDoubledOnce(_)
ReplaceDoubledOnce(s) ==
    IF Len(s) < 2 THEN s
    ELSE IF s[1] = Quote /\ s[2] = Quote
         THEN <<Quote>> \o SubSeq(s, 3, Len(s))
         ELSE <<s[1]>> \o ReplaceDoubledOnce(Tail(s))

\* line 29: val.replace(/""/g, '"'), leftmost non-overlapping matches
RECURSIVE ReplaceDoubled(_)
ReplaceDoubled(s) ==
    IF Len(s) < 2 THEN s
    ELSE IF s[1] = Quote /\ s[2] = Quote
         THEN <<Quote>> \o ReplaceDoubled(SubSeq(s, 3, Len(s)))
         ELSE <<s[1]>> \o ReplaceDoubled(Tail(s))

\* lines 23-29: the callback of .map(c => ...)
CleanField(c) ==
    LET val == Trim(c)
        stripped == IF Len(val) >= 1 /\ val[1] = Quote /\ val[Len(val)] = Quote
                    THEN SubSeq(val, 2, Len(val) - 1)      \* val.slice(1, -1)
                    ELSE val
    IN  ReplaceDoubled(stripped)

\* line 22-30: .map(c => ...), the cleaning applied to every piece in order
RECURSIVE MapCleanField(_)
MapCleanField(pieces) ==
    IF pieces = <<>> THEN <<>>
    ELSE <<CleanField(Head(pieces))>> \o MapCleanField(Tail(pieces))

\* lines 22-30: const cols
Cols(row) == MapCleanField(SplitAt(row, RowSeparators(row), 1))

\* line 34: array destructuring; a position past the end yields undefined
Field(cols, k) == IF k <= Len(cols) THEN cols[k] ELSE Undefined

(***************************************************************************)
(* Halls, brands and the brand-identity map                                *)
(***************************************************************************)
\* a copy that rebuilds each hall from its id and code only
CloneSkeletonBare(skel) ==
    [k \in 1..Len(skel) |->
        [id |-> skel[k].id, code |-> skel[k].code, floor |-> "", type |-> "",
         brands |-> <<>>]]

\* a copy that keeps each hall's brands
CloneSkeletonKeep(skel) == skel

\* lines 12-15: skeletonHalls.map(h => ({ ...h, brands: [] }))
\* no copy at all: skeletonHalls.map(h => h)
CloneSkeletonAlias(skel) == skel

CloneSkeleton(skel) == [k \in 1..Len(skel) |-> [skel[k] EXCEPT !.brands = <<>>]]

\* an unmatched hall code falling back to the first hall
FindIndexOrFirst(halls, hallCode) ==
    LET hits == {k \in 1..Len(halls) : halls[k].code = hallCode}
    IN  IF hits = {} THEN 1 ELSE SetMin(hits)

\* line 36: updatedHalls.findIndex(h => h.code === hallCode); positions
\* are counted from 1 here, -1 is "not found" as in the code
FindIndex(halls, hallCode) ==
    LET hits == {k \in 1..Len(halls) : halls[k].code = hallCode}
    IN  IF hits = {} THEN -1 ELSE SetMin(hits)

\* line 39: `${hallCode}-${booth}`
BrandId(hallCode, booth) == hallCode \o <<Dash>> \o booth

\* lines 43-50: the new Brand object
NewBrand(brandId, booth, brandName) ==
    [id |-> brandId, booth |-> booth, name |-> brandName,
     description |-> <<>>, models |-> <<>>, fullModelList |-> <<>>]

\* lines 17, 41, 51: Map.has / Map.get / Map.set on brandMap; the map is a
\* function from the ids seen so far to references
\* a map that outlives the call: line 17 finds the entries of the last call
EmptyMapKept == brandMap
EmptyMap == <<>>
\* a lookup that never finds the brand: every row makes a new Brand
MapHasNever(m, key) == FALSE
MapHas(m, key) == key \in DOMAIN m
MapSet(m, key, v) == [x \in (DOMAIN m) \cup {key} |-> IF x = key THEN v ELSE m[x]]

\* an entry that is flagged as a new launch whatever the category
ModelEntryAlwaysNew(modelName, tag, note, isNewLaunch) ==
    [name |-> modelName,
     highlight |-> IF Truthy(tag) THEN tag ELSE <<>>,
     isNewLaunch |-> TRUE,
     note |-> note]

\* lines 60-65 and 72-77: the entry pushed for a Key / Normal row
ModelEntry(modelName, tag, note, isNewLaunch) ==
    [name |-> modelName,
     highlight |-> IF Truthy(tag) THEN tag ELSE <<>>,      \* tag || ''
     isNewLaunch |-> isNewLaunch,
     note |-> note]

\* a dispatch whose Info branch keeps the first description
ApplyCategoryFirstInfo(brand, category, modelName, tag, note) ==
    IF category = <<"I", "n", "f", "o">>
    THEN IF Truthy(note) /\ brand.description = <<>>
         THEN [brand EXCEPT !.description = note] ELSE brand
    ELSE IF category = <<"K", "e", "y">>
    THEN IF Truthy(modelName)
         THEN [brand EXCEPT !.models = Append(@, ModelEntry(modelName, tag, note, TRUE))]
         ELSE brand
    ELSE IF category = <<"N", "o", "r", "m", "a", "l">>
    THEN IF Truthy(modelName)
         THEN [brand EXCEPT !.fullModelList =
                                Append(@, ModelEntry(modelName, tag, note, FALSE))]
         ELSE brand
    ELSE brand

\* a dispatch that treats every unrecognised category as "Normal"
ApplyCategoryDefaultNormal(brand, category, modelName, tag, note) ==
    IF category = <<"I", "n", "f", "o">>
    THEN IF Truthy(note) THEN [brand EXCEPT !.description = note] ELSE brand
    ELSE IF category = <<"K", "e", "y">>
    THEN IF Truthy(modelName)
         THEN [brand EXCEPT !.models = Append(@, ModelEntry(modelName, tag, note, TRUE))]
         ELSE brand
    ELSE IF Truthy(modelName)
         THEN [brand EXCEPT !.fullModelList =
                                Append(@, ModelEntry(modelName, tag, note, FALSE))]
         ELSE brand

\* a dispatch that puts a new entry in front of the list (unshift)
ApplyCategoryPrepend(brand, category, modelName, tag, note) ==
    IF category = <<"I", "n", "f", "o">>
    THEN IF Truthy(note) THEN [brand EXCEPT !.description = note] ELSE brand
    ELSE IF category = <<"K", "e", "y">>
    THEN IF Truthy(modelName)
         THEN [brand EXCEPT !.models = <<ModelEntry(modelName, tag, note, TRUE)>> \o @]
         ELSE brand
    ELSE IF category = <<"N", "o", "r", "m", "a", "l">>
    THEN IF Truthy(modelName)
         THEN [brand EXCEPT !.fullModelList =
                                <<ModelEntry(modelName, tag, note, FALSE)>> \o @]
         ELSE brand
    ELSE brand

\* a dispatch that pushes an entry without looking at the model name
ApplyCategoryNoNameCheck(brand, category, modelName, tag, note) ==
    IF category = <<"I", "n", "f", "o">>
    THEN IF Truthy(note) THEN [brand EXCEPT !.description = note] ELSE brand
    ELSE IF category = <<"K", "e", "y">>
    THEN [brand EXCEPT !.models = Append(@, ModelEntry(modelName, tag, note, TRUE))]
    ELSE IF category = <<"N", "o", "r", "m", "a", "l">>
    THEN [brand EXCEPT !.fullModelList =
                           Append(@, ModelEntry(modelName, tag, note, FALSE))]
    ELSE brand

\* a dispatch that assigns a one-entry list instead of pushing
ApplyCategoryReplace(brand, category, modelName, tag, note) ==
    IF category = <<"I", "n", "f", "o">>
    THEN IF Truthy(note) THEN [brand EXCEPT !.description = note] ELSE brand
    ELSE IF category = <<"K", "e", "y">>
    THEN IF Truthy(modelName)
         THEN [brand EXCEPT !.models = <<ModelEntry(modelName, tag, note, TRUE)>>]
         ELSE brand
    ELSE IF category = <<"N", "o", "r", "m", "a", "l">>
    THEN IF Truthy(modelName)
         THEN [brand EXCEPT !.fullModelList =
                                <<ModelEntry(modelName, tag, note, FALSE)>>]
         ELSE brand
    ELSE brand

\* lines 55-79: the category dispatch on the row's brand
ApplyCategory(brand, category, modelName, tag, note) ==
    IF category = <<"I", "n", "f", "o">>
    THEN IF Truthy(note) THEN [brand EXCEPT !.description = note] ELSE brand
    ELSE IF category = <<"K", "e", "y">>
    THEN IF Truthy(modelName)
         THEN [brand EXCEPT !.models = Append(@, ModelEntry(modelName, tag, note, TRUE))]
         ELSE brand
    ELSE IF category = <<"N", "o", "r", "m", "a", "l">>
    THEN IF Truthy(modelName)
         THEN [brand EXCEPT !.fullModelList =
                                Append(@, ModelEntry(modelName, tag, note, FALSE))]
         ELSE brand
    ELSE brand

\* a callback that takes the brand's name from every row that carries its id
ProcessRowLastName(st, row) ==
    LET cols == Cols(row)
        hallCode == Field(cols, 1)
        booth == Field(cols, 2)
        brandName == Field(cols, 3)
        category == Field(cols, 4)
        modelName == Field(cols, 5)
        tag == Field(cols, 6)
        note == Field(cols, 7)
        hallIndex == FindIndex(st.updatedHalls, hallCode)
        brandId == BrandId(hallCode, booth)
        isNew == ~MapHas(st.brandMap, brandId)                   \* if (!brand)
        ref == IF isNew THEN Len(st.heap) + 1 ELSE st.brandMap[brandId]
        created ==                                               \* lines 42-53
            IF isNew
            THEN [updatedHalls |->
                      [st.updatedHalls EXCEPT ![hallIndex].brands = Append(@, ref)],
                  brandMap |-> MapSet(st.brandMap, brandId, ref),
                  heap |-> Append(st.heap, NewBrand(brandId, booth, brandName))]
            ELSE st
    IN  IF Len(cols) < 3 THEN st                                 \* line 32
        ELSE IF hallIndex = -1 THEN st                           \* line 37
        ELSE [created EXCEPT !.heap[ref] =
                  [ApplyCategory(@, category, modelName, tag, note)
                       EXCEPT !.name = brandName]]

(***************************************************************************)
(* Lines 19-80: the callback of rows.forEach, as a function of the         *)
(* aggregation state st = [updatedHalls, brandMap, heap] and one row.      *)
(***************************************************************************)
ProcessRow(st, row) ==
    LET cols == Cols(row)
        hallCode == Field(cols, 1)
        booth == Field(cols, 2)
        brandName == Field(cols, 3)
        category == Field(cols, 4)
        modelName == Field(cols, 5)
        tag == Field(cols, 6)
        note == Field(cols, 7)
        hallIndex == FindIndex(st.updatedHalls, hallCode)
        brandId == BrandId(hallCode, booth)
        isNew == ~MapHas(st.brandMap, brandId)                   \* if (!brand)
        ref == IF isNew THEN Len(st.heap) + 1 ELSE st.brandMap[brandId]
        created ==                                               \* lines 42-53
            IF isNew
            THEN [updatedHalls |->
                      [st.updatedHalls EXCEPT ![hallIndex].brands = Append(@, ref)],
                  brandMap |-> MapSet(st.brandMap, brandId, ref),
                  heap |-> Append(st.heap, NewBrand(brandId, booth, brandName))]
            ELSE st
    IN  IF Len(cols) < 3 THEN st                                 \* line 32
        ELSE IF hallIndex = -1 THEN st                           \* line 37
        ELSE [created EXCEPT !.heap[ref] =
                  ApplyCategory(@, category, modelName, tag, note)]

\* lines 19-80: rows.forEach(...) from a given aggregation state
RECURSIVE ParseRows(_, _)
ParseRows(st, rs) ==
    IF rs = <<>> THEN st ELSE ParseRows(ProcessRow(st, Head(rs)), Tail(rs))

\* lines 82 and 86: how the returned promise settles.  ref names the array
\* object that is returned, value is its content.
\* a catch block that hands back the skeleton with its brands cleared
CatchReturnCleared(skel) ==
    [state |-> "fulfilled", ref |-> "skeletonHalls",
     value |-> [k \in 1..Len(skel) |-> [skel[k] EXCEPT !.brands = <<>>]]]

\* a catch block that rethrows
CatchRethrow(skel) == [state |-> "rejected", ref |-> "none", value |-> <<>>]

ReturnUpdated(upd) == [state |-> "fulfilled", ref |-> "updatedHalls", value |-> upd]
CatchReturn(skel) == [state |-> "fulfilled", ref |-> "skeletonHalls", value |-> skel]
Pending == [state |-> "pending", ref |-> "none", value |-> <<>>]

\* the Response object of line 6, of which only the ok flag matters here
NoResponse == [received |-> FALSE, ok |-> FALSE]

(***************************************************************************)
(* Inputs: skeletons and documents                                         *)
(***************************************************************************)
MaxRows == 3

HallA == <<"a">>
HallAB == <<"a", "-", "b">>
HallZ == <<"z">>
BoothC == <<"c">>
BoothBC == <<"b", "-", "c">>
Info == <<"I", "n", "f", "o">>
Key == <<"K", "e", "y">>
Normal == <<"N", "o", "r", "m", "a", "l">>

RECURSIVE CommaJoin(_)
CommaJoin(fields) ==
    IF Len(fields) = 1 THEN fields[1]
    ELSE fields[1] \o <<Comma>> \o CommaJoin(Tail(fields))

RECURSIVE LineJoin(_)
LineJoin(lines) ==
    IF lines = <<>> THEN <<>>
    ELSE <<LF>> \o Head(lines) \o LineJoin(Tail(lines))

Lines ==
    { CommaJoin(<<HallA, BoothC, <<"X">>, Info, <<>>, <<>>, <<"n">>>>),
      CommaJoin(<<HallA, BoothC, <<"Y">>, Info, <<>>, <<>>, <<"m">>>>),
      CommaJoin(<<HallA, BoothC, <<"X">>, Info, <<"M">>, <<"t">>, <<>>>>),
      CommaJoin(<<HallA, BoothC, <<"X">>, Key, <<"M">>, <<"t">>, <<"n">>>>),
      CommaJoin(<<HallA, BoothC, <<"X">>, Normal, <<"N">>, <<>>, <<"n">>>>),
      CommaJoin(<<HallA, BoothBC, <<"X">>, Key, <<"M">>>>),
      CommaJoin(<<HallAB, BoothC, <<"Y">>, Normal, <<"N">>, <<"t">>>>),
      CommaJoin(<<HallZ, BoothC, <<"X">>, Key, <<"M">>, <<"t">>, <<"n">>>>),
      CommaJoin(<<HallA, BoothC>>),
      CommaJoin(<<HallA, BoothC, <<"X">>, Key, <<>>, <<"t">>, <<"n">>>>) }

\* the first line of every document is itself a well-formed data row
Header == CommaJoin(<<HallA, BoothC, <<"H">>, Info, <<>>, <<>>, <<"h">>>>)

Documents ==
    { Header \o LineJoin(ls) : ls \in UNION {[1..n -> Lines] : n \in 0..MaxRows} }

StaleBrand ==
    [id |-> BrandId(HallA, BoothC), booth |-> BoothC, name |-> <<"O">>,
     description |-> <<"o">>,
     models |-> << [name |-> <<"P">>, highlight |-> <<>>, isNewLaunch |-> TRUE,
                    note |-> <<>>] >>,
     fullModelList |-> <<>>]

Hall(id, code, floor, type, brands) ==
    [id |-> id, code |-> code, floor |-> floor, type |-> type, brands |-> brands]

\* a skeleton is a hall array together with the Brand objects it refers to
Skeletons ==
    { [halls |-> << Hall("h1", HallA, "F1", "NEV", <<>>),
                    Hall("h2", HallAB, "F2", "LUXURY", <<>>) >>,
       heap |-> <<>>],
      [halls |-> << Hall("h1", HallAB, "F1", "NEV", <<1>>),
                    Hall("h2", HallA, "F2", "LUXURY", <<>>) >>,
       heap |-> << StaleBrand >>] }

\* what a caller sees of a returned collection: the halls with their Brand
\* objects in place of the references
View(halls, objects) ==
    [k \in 1..Len(halls) |->
        [halls[k] EXCEPT !.brands = [p \in 1..Len(halls[k].brands) |->
                                        objects[halls[k].brands[p]]]]]

NoPrevious == [succeeded |-> FALSE, view |-> <<>>]

(***************************************************************************)
(* The application around the loader: App (src/unnamed/part_000), the map  *)
(* (src/components/MapCanvas.tsx) and the side panel                       *)
(* (src/components/Sidebar.tsx).  Lengths are in pixels, the scale is in   *)
(* hundredths.  A handler, the render it causes and the effects of that    *)
(* render are one step: React runs the effects of a render before it       *)
(* handles the next event.                                                 *)
(***************************************************************************)
\* useState<string | null>(null): no hall selected, no brand highlighted
NullHallId == "null"
NullBrandId == <<"n", "u", "l", "l">>

\* MapCanvas lines 15-16
InitialPosition == <<120, 80>>

\* MapCanvas lines 25 and 41: window.innerWidth < 768 ? 0.34 : 0.75
DefaultScale(width) == IF width < 768 THEN 34 ELSE 75

\* a zoom-in without the upper limit
ZoomedInUncapped(s) == s + 20

\* MapCanvas line 37: Math.min(s + 0.2, 3)
ZoomedIn(s) == IF s + 20 < 300 THEN s + 20 ELSE 300

\* MapCanvas line 38: Math.max(s - 0.2, 0.3)
ZoomedOut(s) == IF s - 20 > 30 THEN s - 20 ELSE 30

Abs(n) == IF n < 0 THEN -n ELSE n

\* MapCanvas line 66: Math.abs(dx) > 5 || Math.abs(dy) > 5
BeyondThreshold(dx, dy) == Abs(dx) > 5 \/ Abs(dy) > 5

\* a click test that does not look at the brands list
MaySelectAnyHall(dragging, hall) == ~dragging

\* MapCanvas line 93: !isDragging.current && hall.brands.length > 0
MaySelect(dragging, hall) == ~dragging /\ Len(hall.brands) > 0

\* App line 38: halls.find(h => h.id === selectedHallId) || null, as the
\* identity of the hall object: the array it lives in and its position
SelectedHall(ref, hs, id) ==
    LET found == {k \in 1..Len(hs) : hs[k].id = id}
    IN  IF found = {} THEN [ref |-> "null", index |-> 0]
        ELSE [ref |-> ref, index |-> SetMin(found)]

\* Sidebar line 176: expandedBrands[brand.id] || false
IsExpanded(expanded, brandId) == brandId \in DOMAIN expanded /\ expanded[brandId]

\* the two effects in the other order
SidebarEffectsExpandFirst(hallChanged, highlightChanged, highlighted, hallPresent, expanded) ==
    LET afterExpand ==
            IF (hallChanged \/ highlightChanged)
               /\ highlighted # NullBrandId /\ hallPresent
            THEN MapSet(expanded, highlighted, TRUE)
            ELSE expanded
    IN  IF hallChanged THEN <<>> ELSE afterExpand

\* Sidebar lines 18-25 and 28-61: the effect on [hall], then the effect on
\* [highlightedBrandId, hall]; their state updates apply in this order
SidebarEffects(hallChanged, highlightChanged, highlighted, hallPresent, expanded) ==
    LET afterReset == IF hallChanged THEN <<>> ELSE expanded        \* line 21
    IN  IF (hallChanged \/ highlightChanged)
           /\ highlighted # NullBrandId /\ hallPresent              \* line 29
        THEN MapSet(afterReset, highlighted, TRUE)                  \* line 31
        ELSE afterReset

\* Sidebar lines 65-68: { ...prev, [brandId]: !prev[brandId] }
Toggled(expanded, brandId) == MapSet(expanded, brandId, ~IsExpanded(expanded, brandId))

\* pointer positions (clientX, clientY) of the events
Points == { <<0, 0>>, <<5, 0>>, <<0, 6>> }

\* viewport widths on both sides of the limit of lines 25 and 41
Widths == { 767, 768 }

\* bounds of the model: how far the map is dragged from its initial
\* position, and how many timers are pending at once
MaxOffset == 6
MaxTimers == 2

InBox(pos) ==
    /\ Abs(pos[1] - InitialPosition[1]) <= MaxOffset
    /\ Abs(pos[2] - InitialPosition[2]) <= MaxOffset

\* the values Sidebar's effects depend on (lines 25 and 61), for the given
\* state of App
Deps(ref, hs, selected, highlighted) ==
    [hall |-> SelectedHall(ref, hs, selected), highlighted |-> highlighted]

uiVars == <<appHalls, hallsRef, isLoading, loadPc, selectedHallId, highlightedBrandId,
            isSearchOpen, scale, position, innerWidth, isDragging, startPos,
            dragStartPos, lastPos, listening, timers, clickPending, moved,
            expandedBrands, rendered>>

appVars == <<appHalls, hallsRef, isLoading, loadPc, selectedHallId, highlightedBrandId,
             isSearchOpen, expandedBrands, rendered>>

mapVars == <<scale, position, innerWidth, isDragging, startPos, dragStartPos,
             lastPos, listening, timers, clickPending, moved>>

loaderVars == <<pc, skeletonHalls, body, response, text, rows, next, updatedHalls,
                brandMap, heap, error, result, rowCols, calls, previous>>

\* the state of the three components after the first render in a viewport
\* of the given width
MountedIn(width) ==
    /\ appHalls = skeletonHalls            \* App line 10, with initialHalls
    /\ hallsRef = "skeletonHalls"
    /\ isLoading = TRUE                    \* App line 11
    /\ loadPc = "await"                    \* App line 20
    /\ selectedHallId = NullHallId         \* App line 12
    /\ highlightedBrandId = NullBrandId    \* App line 13
    /\ isSearchOpen = FALSE                \* App line 14
    /\ innerWidth = width
    /\ scale = DefaultScale(width)         \* MapCanvas lines 21-28
    /\ position = InitialPosition          \* MapCanvas line 18
    /\ isDragging = FALSE                  \* MapCanvas lines 31-34
    /\ startPos = <<0, 0>>
    /\ dragStartPos = <<0, 0>>
    /\ lastPos = <<0, 0>>
    /\ listening = FALSE
    /\ timers = 0
    /\ clickPending = FALSE
    /\ moved = FALSE
    /\ expandedBrands = <<>>               \* Sidebar line 15
    /\ rendered = Deps("skeletonHalls", skeletonHalls, NullHallId, NullBrandId)

Mounted == MountedIn(768)

(***************************************************************************)
(* The state machine of one call parseBrandsCSV(csvUrl, skeletonHalls)     *)
(***************************************************************************)
Init ==
    /\ \E sk \in Skeletons : skeletonHalls = sk.halls /\ heap = sk.heap
    /\ body \in Documents
    /\ pc = "fetch"
    /\ response = NoResponse
    /\ error = "none"
    /\ text = <<>>
    /\ rows = <<>>
    /\ next = 1
    /\ updatedHalls = <<>>
    /\ brandMap = <<>>
    /\ result = Pending
    /\ rowCols = <<>>
    /\ calls = 1
    /\ previous = NoPrevious
    /\ Mounted

\* line 6: the fetch resolves with a Response, OK or not
FetchResolve(ok) ==
    /\ pc = "fetch"
    /\ response' = [received |-> TRUE, ok |-> ok]
    /\ pc' = "text"
    /\ UNCHANGED <<skeletonHalls, body, text, rows, next, updatedHalls, brandMap,
                   heap, error, result>>
    /\ UNCHANGED <<rowCols, calls, previous>>
    /\ UNCHANGED uiVars

\* line 6 rejects: control passes to the catch block, lines 84-87
FetchReject ==
    /\ pc = "fetch"
    /\ error' = "fetch"
    /\ result' = CatchReturn(skeletonHalls)
    /\ pc' = "done"
    /\ UNCHANGED <<skeletonHalls, body, response, text, rows, next, updatedHalls,
                   brandMap, heap>>
    /\ UNCHANGED <<rowCols, calls, previous>>
    /\ UNCHANGED uiVars

\* lines 7-17: the body is read, split into rows, and the working copy and
\* the empty brand map are made
TextResolve ==
    /\ pc = "text"
    /\ text' = body
    /\ rows' = RowsOf(body)
    /\ updatedHalls' = CloneSkeleton(skeletonHalls)
    /\ brandMap' = EmptyMap
    /\ next' = 1
    /\ pc' = "rows"
    /\ UNCHANGED <<skeletonHalls, body, response, heap, error, result>>
    /\ UNCHANGED <<rowCols, calls, previous>>
    /\ UNCHANGED uiVars

\* line 7 rejects: control passes to the catch block, lines 84-87
TextReject ==
    /\ pc = "text"
    /\ error' = "text"
    /\ result' = CatchReturn(skeletonHalls)
    /\ pc' = "done"
    /\ UNCHANGED <<skeletonHalls, body, response, text, rows, next, updatedHalls,
                   brandMap, heap>>
    /\ UNCHANGED <<rowCols, calls, previous>>
    /\ UNCHANGED uiVars

\* lines 19-80: one call of the forEach callback
RowCallback ==
    /\ pc = "rows"
    /\ next <= Len(rows)
    /\ LET st == ProcessRow([updatedHalls |-> updatedHalls, brandMap |-> brandMap,
                             heap |-> heap], rows[next])
       IN  /\ updatedHalls' = st.updatedHalls
           /\ brandMap' = st.brandMap
           /\ heap' = st.heap
    /\ next' = next + 1
    /\ UNCHANGED <<pc, skeletonHalls, body, response, text, rows, error, result>>
    /\ rowCols' = Cols(rows[next])
    /\ UNCHANGED <<calls, previous>>
    /\ UNCHANGED uiVars

\* an exception raised inside the forEach callback (lines 19-80 lie inside
\* the try block): the rows aggregated so far stay in updatedHalls and
\* control passes to the catch block, lines 84-87
RowThrow ==
    /\ pc = "rows"
    /\ next <= Len(rows)
    /\ error' = "row"
    /\ result' = CatchReturn(skeletonHalls)
    /\ pc' = "done"
    /\ UNCHANGED <<skeletonHalls, body, response, text, rows, next, updatedHalls,
                   brandMap, heap>>
    /\ UNCHANGED <<rowCols, calls, previous>>
    /\ UNCHANGED uiVars

\* line 82: return updatedHalls
Return ==
    /\ pc = "rows"
    /\ next > Len(rows)
    /\ result' = ReturnUpdated(updatedHalls)
    /\ pc' = "done"
    /\ UNCHANGED <<skeletonHalls, body, response, text, rows, next, updatedHalls,
                   brandMap, heap, error>>
    /\ UNCHANGED <<rowCols, calls, previous>>
    /\ UNCHANGED uiVars

Next ==
    \/ \E ok \in BOOLEAN : FetchResolve(ok)
    \/ FetchReject
    \/ TextResolve
    \/ TextReject
    \/ RowCallback
    \/ RowThrow
    \/ Return

Spec == Init /\ [][Next]_vars

(***************************************************************************)
(* The same call on a second family of documents: rows with unrecognised   *)
(* or absent categories, rows with empty positions, several entries and    *)
(* several brands per hall.                                                *)
(***************************************************************************)
BoothB == <<"b">>

VariantLines ==
    { CommaJoin(<<HallA, BoothC, <<"X">>>>),
      CommaJoin(<<HallA, BoothC, <<"X">>, <<"i", "n", "f", "o">>, <<>>, <<>>, <<"n">>>>),
      CommaJoin(<<HallA, BoothC, <<"X">>, <<"K", "E", "Y">>, <<"M">>, <<"t">>, <<"n">>>>),
      CommaJoin(<<HallA, BoothC, <<"X">>, Key, <<"M">>, <<"t">>, <<"n">>>>),
      CommaJoin(<<HallA, BoothC, <<"X">>, Key, <<"P">>>>),
      CommaJoin(<<HallA, BoothC, <<"X">>, Normal, <<"N">>, <<>>, <<"n">>>>),
      CommaJoin(<<HallA, BoothC, <<"X">>, Normal, <<"Q">>, <<"t">>>>),
      CommaJoin(<<HallA, BoothB, <<"Y">>, Info, <<>>, <<>>, <<"m">>>>),
      CommaJoin(<<HallA, <<>>, <<>>>>),
      CommaJoin(<<HallAB, BoothC, <<"Z">>>>) }

VariantDocuments ==
    { Header \o LineJoin(ls) :
          ls \in UNION {[1..n -> VariantLines] : n \in 0..MaxRows} }

InitVariants ==
    /\ \E sk \in Skeletons : skeletonHalls = sk.halls /\ heap = sk.heap
    /\ body \in VariantDocuments
    /\ pc = "fetch"
    /\ response = NoResponse
    /\ error = "none"
    /\ text = <<>>
    /\ rows = <<>>
    /\ next = 1
    /\ updatedHalls = <<>>
    /\ brandMap = <<>>
    /\ result = Pending
    /\ rowCols = <<>>
    /\ calls = 1
    /\ previous = NoPrevious
    /\ Mounted

SpecVariants == InitVariants /\ [][Next]_vars

(***************************************************************************)
(* The same call on documents whose single row is any string of at most    *)
(* MaxLineLen characters over a letter, the comma, the double quote, the   *)
(* space and the carriage return.                                          *)
(***************************************************************************)
MaxLineLen == 5

TokAlphabet == {"a", Comma, Quote, " ", CR}

\* rows whose fields are padded with a form feed and a no-break space
FeedLines ==
    { <<FF, "a", FF, Comma, NBSP, "a", Comma, "a", FF>>,
      <<"a", Comma, "a", FF, "a", Comma, FF, Quote, "a", Quote, NBSP>>,
      <<FF, NBSP>> }

TokLines == UNION {[1..n -> TokAlphabet] : n \in 1..MaxLineLen} \cup FeedLines

TokDocuments == { Header \o <<LF>> \o line : line \in TokLines }

InitTok ==
    /\ \E sk \in Skeletons : skeletonHalls = sk.halls /\ heap = sk.heap
    /\ body \in TokDocuments
    /\ pc = "fetch"
    /\ response = NoResponse
    /\ error = "none"
    /\ text = <<>>
    /\ rows = <<>>
    /\ next = 1
    /\ updatedHalls = <<>>
    /\ brandMap = <<>>
    /\ result = Pending
    /\ rowCols = <<>>
    /\ calls = 1
    /\ previous = NoPrevious
    /\ Mounted

SpecTok == InitTok /\ [][Next]_vars

(***************************************************************************)
(* The same call on documents whose first line is a data row or is empty   *)
(* and whose later lines are data rows with and without a model name,      *)
(* empty lines and lines of whitespace.                                    *)
(***************************************************************************)
FirstLines == { Header, <<>> }

EntryLines ==
    { CommaJoin(<<HallA, BoothC, <<"X">>, Key, <<"M">>, <<"t">>, <<"n">>>>),
      CommaJoin(<<HallA, BoothC, <<"X">>, Key, <<>>, <<"t">>, <<"n">>>>),
      CommaJoin(<<HallA, BoothC, <<"X">>, Key>>),
      CommaJoin(<<HallA, BoothC, <<"X">>, Normal, <<"N">>>>),
      CommaJoin(<<HallA, BoothC, <<"X">>, Normal, <<>>, <<"t">>>>),
      CommaJoin(<<HallAB, BoothC, <<"Y">>, Normal>>) }

BlankLines == { <<>>, <<" ", FF, CR>> }

LineDocuments ==
    { first \o LineJoin(ls) :
          first \in FirstLines,
          ls \in UNION {[1..n -> EntryLines \cup BlankLines] : n \in 0..MaxRows} }

InitLines ==
    /\ \E sk \in Skeletons : skeletonHalls = sk.halls /\ heap = sk.heap
    /\ body \in LineDocuments
    /\ pc = "fetch"
    /\ response = NoResponse
    /\ error = "none"
    /\ text = <<>>
    /\ rows = <<>>
    /\ next = 1
    /\ updatedHalls = <<>>
    /\ brandMap = <<>>
    /\ result = Pending
    /\ rowCols = <<>>
    /\ calls = 1
    /\ previous = NoPrevious
    /\ Mounted

SpecLines == InitLines /\ [][Next]_vars

(***************************************************************************)
(* The function called again with the same arguments once a call has       *)
(* finished: the same skeletonHalls array, as the finished call left it,   *)
(* and a resource that delivers the same text.  The locals of the new call *)
(* get their values at lines 6-17.                                         *)
(***************************************************************************)
MaxCalls == 2

TwiceLines ==
    { CommaJoin(<<HallA, BoothC, <<"X">>, Info, <<>>, <<>>, <<"n">>>>),
      CommaJoin(<<HallA, BoothC, <<"X">>, Key, <<"M">>, <<"t">>, <<"n">>>>),
      CommaJoin(<<HallA, BoothBC, <<"X">>, Key, <<"M">>>>),
      CommaJoin(<<HallAB, BoothC, <<"Y">>, Normal, <<"N">>, <<"t">>>>),
      CommaJoin(<<HallZ, BoothC, <<"X">>, Key, <<"M">>, <<"t">>, <<"n">>>>) }

TwiceDocuments ==
    { Header \o LineJoin(ls) :
          ls \in UNION {[1..n -> TwiceLines] : n \in 0..MaxRows} }

InitTwice ==
    /\ \E sk \in Skeletons : skeletonHalls = sk.halls /\ heap = sk.heap
    /\ body \in TwiceDocuments
    /\ pc = "fetch"
    /\ response = NoResponse
    /\ error = "none"
    /\ text = <<>>
    /\ rows = <<>>
    /\ next = 1
    /\ updatedHalls = <<>>
    /\ brandMap = <<>>
    /\ result = Pending
    /\ rowCols = <<>>
    /\ calls = 1
    /\ previous = NoPrevious
    /\ Mounted

\* line 4: parseBrandsCSV(csvUrl, skeletonHalls) is entered again
CallAgain ==
    /\ pc = "done"
    /\ calls < MaxCalls
    /\ previous' = [succeeded |-> (error = "none"), view |-> View(result.value, heap)]
    /\ calls' = calls + 1
    /\ pc' = "fetch"
    /\ response' = NoResponse
    /\ error' = "none"
    /\ result' = Pending
    /\ next' = 1
    /\ UNCHANGED <<skeletonHalls, body, heap, text, rows, updatedHalls, brandMap,
                   rowCols>>
    /\ UNCHANGED uiVars

NextTwice == Next \/ CallAgain

SpecTwice == InitTwice /\ [][NextTwice]_vars

(***************************************************************************)
(* App: loadData (lines 17-25) awaits the call and then publishes what it  *)
(* returned.                                                               *)
(***************************************************************************)
\* A handler of App only queues its state updates.  React renders and
\* commits them, and Sidebar's effects (useEffect, lines 18 and 28) run
\* after that commit; the updates they queue are applied by a later render.
\* Other callbacks can run in between.  Before the next render React runs
\* the effects that are still due.
CurrentDeps == Deps(hallsRef, appHalls, selectedHallId, highlightedBrandId)

EffectsDue == rendered # CurrentDeps

\* expandedBrands once the effects that are due, if any, have run and their
\* updates are applied
Flushed ==
    SidebarEffects(rendered.hall # CurrentDeps.hall,
                   rendered.highlighted # CurrentDeps.highlighted,
                   CurrentDeps.highlighted, CurrentDeps.hall.index # 0,
                   expandedBrands)

\* Sidebar lines 18-61: the effects of the last commit run and the render
\* that applies their updates follows
RunSidebarEffects ==
    /\ EffectsDue
    /\ expandedBrands' = Flushed
    /\ rendered' = CurrentDeps
    /\ UNCHANGED <<appHalls, hallsRef, isLoading, loadPc, selectedHallId,
                   highlightedBrandId, isSearchOpen>>
    /\ UNCHANGED <<scale, position, innerWidth, isDragging, startPos, dragStartPos,
                   lastPos, listening, timers, clickPending, moved>>
    /\ UNCHANGED <<pc, skeletonHalls, body, response, text, rows, next, updatedHalls,
                   brandMap, heap, error, result, rowCols, calls, previous>>

\* the working copy of the call in place of what the call returned
AwaitedWorkingCopy == [ref |-> "updatedHalls", value |-> updatedHalls]

\* App line 20: const updatedHalls = await parseBrandsCSV(...)
Awaited == [ref |-> result.ref, value |-> result.value]

\* a continuation that leaves isLoading alone
LoadDataResumeStillLoading ==
    /\ loadPc = "await"
    /\ pc = "done"
    /\ result.state = "fulfilled"
    /\ appHalls' = Awaited.value
    /\ hallsRef' = Awaited.ref
    /\ expandedBrands' = Flushed
    /\ rendered' = CurrentDeps
    /\ loadPc' = "done"
    /\ UNCHANGED <<isLoading, selectedHallId, highlightedBrandId, isSearchOpen>>
    /\ UNCHANGED mapVars
    /\ UNCHANGED loaderVars

\* App lines 20-22: the await resumes once the promise is fulfilled, then
\* setHalls(updatedHalls) and setIsLoading(false)
LoadDataResume ==
    /\ loadPc = "await"
    /\ pc = "done"
    /\ result.state = "fulfilled"
    /\ appHalls' = Awaited.value
    /\ hallsRef' = Awaited.ref
    /\ isLoading' = FALSE
    /\ expandedBrands' = Flushed
    /\ rendered' = CurrentDeps
    /\ loadPc' = "done"
    /\ UNCHANGED <<selectedHallId, highlightedBrandId, isSearchOpen>>
    /\ UNCHANGED mapVars
    /\ UNCHANGED loaderVars

InitApp ==
    /\ \E sk \in Skeletons : skeletonHalls = sk.halls /\ heap = sk.heap
    /\ body \in TwiceDocuments
    /\ pc = "fetch"
    /\ response = NoResponse
    /\ error = "none"
    /\ text = <<>>
    /\ rows = <<>>
    /\ next = 1
    /\ updatedHalls = <<>>
    /\ brandMap = <<>>
    /\ result = Pending
    /\ rowCols = <<>>
    /\ calls = 1
    /\ previous = NoPrevious
    /\ \E width \in Widths : MountedIn(width)

NextApp == Next \/ LoadDataResume

SpecApp == InitApp /\ [][NextApp]_vars

\* line 19: rows.forEach goes on to the row after the one it visited
RowAdvance == pc = "rows" /\ next <= Len(rows) /\ next' = next + 1

\* code that is ready to run does run: forEach visits the next row unless a
\* callback throws, the function returns, the continuation of loadData runs;
\* whether and when the fetch and the body read settle is up to the network
SpecAppLive ==
    /\ InitApp
    /\ [][NextApp]_vars
    /\ WF_next(RowAdvance)
    /\ WF_vars(Return)
    /\ WF_vars(LoadDataResume)

(***************************************************************************)
(* The map and the side panel in use.  While isLoading is true the overlay *)
(* of App lines 76-86 covers the map, so pointer events reach the map only *)
(* after the load: the behaviours start in the state a finished load       *)
(* leaves.  One pointer is followed: a pointer-down comes after the        *)
(* pointer-up of the gesture before it, and the click that ends a gesture  *)
(* is dispatched right after its pointer-up, before the timer that         *)
(* pointer-up has set can fire and before any other input.                 *)
(***************************************************************************)
UiLines ==
    << CommaJoin(<<HallA, BoothC, <<"X">>, Key, <<"M">>, <<"t">>, <<"n">>>>),
       CommaJoin(<<HallA, BoothB, <<"Y">>, Info, <<>>, <<>>, <<"m">>>>),
       CommaJoin(<<HallAB, BoothC, <<"Z">>>>) >>

\* hall "a" with two brands and hall "a-b" with none
MapDocument == Header \o LineJoin(SubSeq(UiLines, 1, 2))

\* the same, and a brand in hall "a-b"
UiDocuments == { MapDocument, Header \o LineJoin(UiLines) }

PlainSkeleton == CHOOSE sk \in Skeletons : sk.heap = <<>>

\* the three components after loadData has published the result of a
\* successful call on the document doc, with the given selection, highlight
\* and expansions
LoadedFrom(sk, doc, width, selected, highlighted, expanded) ==
    LET st == ParseRows([updatedHalls |-> CloneSkeleton(sk.halls),
                         brandMap |-> <<>>, heap |-> sk.heap], RowsOf(doc))
    IN  /\ skeletonHalls = sk.halls
        /\ body = doc
        /\ pc = "done"
        /\ response = [received |-> TRUE, ok |-> TRUE]
        /\ error = "none"
        /\ text = doc
        /\ rows = RowsOf(doc)
        /\ next = Len(RowsOf(doc)) + 1
        /\ updatedHalls = st.updatedHalls
        /\ brandMap = st.brandMap
        /\ heap = st.heap
        /\ result = ReturnUpdated(st.updatedHalls)
        /\ rowCols = Cols(RowsOf(doc)[Len(RowsOf(doc))])
        /\ calls = 1
        /\ previous = NoPrevious
        /\ appHalls = st.updatedHalls
        /\ hallsRef = "updatedHalls"
        /\ isLoading = FALSE
        /\ loadPc = "done"
        /\ selectedHallId = selected
        /\ highlightedBrandId = highlighted
        /\ isSearchOpen = FALSE
        /\ innerWidth = width
        /\ scale = DefaultScale(width)
        /\ position = InitialPosition
        /\ isDragging = FALSE
        /\ startPos = <<0, 0>>
        /\ dragStartPos = <<0, 0>>
        /\ lastPos = <<0, 0>>
        /\ listening = FALSE
        /\ timers = 0
        /\ clickPending = FALSE
        /\ moved = FALSE
        /\ expandedBrands = expanded
        /\ rendered = Deps("updatedHalls", st.updatedHalls, selected, highlighted)

\* MapCanvas lines 46-60: pointer-down on the canvas, at the point p
HandleDragStart(p) ==
    /\ ~listening
    /\ ~clickPending
    /\ isDragging' = FALSE
    /\ startPos' = p
    /\ dragStartPos' = p
    /\ lastPos' = position
    /\ listening' = TRUE
    /\ moved' = FALSE
    /\ UNCHANGED <<scale, position, innerWidth, timers, clickPending>>
    /\ UNCHANGED appVars
    /\ UNCHANGED loaderVars

\* MapCanvas lines 62-74: pointer-move to the point p during a gesture
HandleDragMove(p) ==
    /\ listening
    /\ LET dx == p[1] - startPos[1]
           dy == p[2] - startPos[2]
       IN  /\ InBox(<<lastPos[1] + dx, lastPos[2] + dy>>)
           /\ isDragging' = (IF BeyondThreshold(dx, dy) THEN TRUE ELSE isDragging)
           /\ position' = <<lastPos[1] + dx, lastPos[2] + dy>>
           /\ moved' = (moved \/ BeyondThreshold(dx, dy))
    /\ UNCHANGED <<scale, innerWidth, startPos, dragStartPos, lastPos, listening,
                   timers, clickPending>>
    /\ UNCHANGED appVars
    /\ UNCHANGED loaderVars

\* MapCanvas lines 76-89: pointer-up; the listeners are removed and a timer
\* of 50 ms is set
HandleDragEnd ==
    /\ listening
    /\ timers < MaxTimers
    /\ listening' = FALSE
    /\ timers' = timers + 1
    /\ clickPending' = TRUE
    /\ UNCHANGED <<scale, position, innerWidth, isDragging, startPos, dragStartPos,
                   lastPos, moved>>
    /\ UNCHANGED appVars
    /\ UNCHANGED loaderVars

\* MapCanvas lines 86-88: a timer fires.  The timer set by the pointer-up
\* whose click is still to be dispatched is not due yet.
TimerFire ==
    /\ timers > 0
    /\ clickPending => timers > 1
    /\ isDragging' = FALSE
    /\ timers' = timers - 1
    /\ UNCHANGED <<scale, position, innerWidth, startPos, dragStartPos, lastPos,
                   listening, clickPending, moved>>
    /\ UNCHANGED appVars
    /\ UNCHANGED loaderVars

\* MapCanvas lines 91-96 with App lines 27-30: the click that ends a
\* gesture lands on the block of the k-th hall
HandleHallClick(k) ==
    /\ clickPending
    /\ clickPending' = FALSE
    /\ IF MaySelect(isDragging, appHalls[k])
       THEN /\ selectedHallId' = appHalls[k].id          \* App line 28
            /\ highlightedBrandId' = NullBrandId         \* App line 29
            /\ expandedBrands' = Flushed
            /\ rendered' = CurrentDeps
       ELSE UNCHANGED <<selectedHallId, highlightedBrandId, expandedBrands, rendered>>
    /\ UNCHANGED <<appHalls, hallsRef, isLoading, loadPc, isSearchOpen>>
    /\ UNCHANGED <<scale, position, innerWidth, isDragging, startPos, dragStartPos,
                   lastPos, listening, timers, moved>>
    /\ UNCHANGED loaderVars

\* the click that ends a gesture lands on no hall block
CanvasClick ==
    /\ clickPending
    /\ clickPending' = FALSE
    /\ UNCHANGED <<scale, position, innerWidth, isDragging, startPos, dragStartPos,
                   lastPos, listening, timers, moved>>
    /\ UNCHANGED appVars
    /\ UNCHANGED loaderVars

\* MapCanvas line 37
HandleZoomIn ==
    /\ ~listening
    /\ ~clickPending
    /\ scale' = ZoomedIn(scale)
    /\ UNCHANGED <<position, innerWidth, isDragging, startPos, dragStartPos, lastPos,
                   listening, timers, clickPending, moved>>
    /\ UNCHANGED appVars
    /\ UNCHANGED loaderVars

\* MapCanvas line 38
HandleZoomOut ==
    /\ ~listening
    /\ ~clickPending
    /\ scale' = ZoomedOut(scale)
    /\ UNCHANGED <<position, innerWidth, isDragging, startPos, dragStartPos, lastPos,
                   listening, timers, clickPending, moved>>
    /\ UNCHANGED appVars
    /\ UNCHANGED loaderVars

\* MapCanvas lines 39-44
HandleReset ==
    /\ ~listening
    /\ ~clickPending
    /\ scale' = DefaultScale(innerWidth)
    /\ position' = InitialPosition
    /\ UNCHANGED <<innerWidth, isDragging, startPos, dragStartPos, lastPos,
                   listening, timers, clickPending, moved>>
    /\ UNCHANGED appVars
    /\ UNCHANGED loaderVars

\* the viewport gets another width
Resize(width) ==
    /\ width # innerWidth
    /\ innerWidth' = width
    /\ UNCHANGED <<scale, position, isDragging, startPos, dragStartPos, lastPos,
                   listening, timers, clickPending, moved>>
    /\ UNCHANGED appVars
    /\ UNCHANGED loaderVars

\* App line 110: the close button of the side panel
CloseSidebar ==
    /\ ~listening
    /\ ~clickPending
    /\ selectedHallId # NullHallId
    /\ selectedHallId' = NullHallId
    /\ expandedBrands' = Flushed
    /\ rendered' = CurrentDeps
    /\ UNCHANGED <<appHalls, hallsRef, isLoading, loadPc, highlightedBrandId,
                   isSearchOpen>>
    /\ UNCHANGED mapVars
    /\ UNCHANGED loaderVars

\* App line 54: the search button
OpenSearch ==
    /\ ~listening
    /\ ~clickPending
    /\ ~isSearchOpen
    /\ isSearchOpen' = TRUE
    /\ UNCHANGED <<appHalls, hallsRef, isLoading, loadPc, selectedHallId,
                   highlightedBrandId, expandedBrands, rendered>>
    /\ UNCHANGED mapVars
    /\ UNCHANGED loaderVars

\* App line 94: the search overlay is closed without a choice
CloseSearch ==
    /\ isSearchOpen
    /\ isSearchOpen' = FALSE
    /\ UNCHANGED <<appHalls, hallsRef, isLoading, loadPc, selectedHallId,
                   highlightedBrandId, expandedBrands, rendered>>
    /\ UNCHANGED mapVars
    /\ UNCHANGED loaderVars

\* App lines 32-36: the search overlay reports the choice of the p-th brand
\* of the k-th hall
HandleBrandSelect(k, p) ==
    /\ isSearchOpen
    /\ selectedHallId' = appHalls[k].id                              \* line 33
    /\ highlightedBrandId' = heap[appHalls[k].brands[p]].id          \* line 34
    /\ isSearchOpen' = FALSE                                         \* line 35
    /\ expandedBrands' = Flushed
    /\ rendered' = CurrentDeps
    /\ UNCHANGED <<appHalls, hallsRef, isLoading, loadPc>>
    /\ UNCHANGED mapVars
    /\ UNCHANGED loaderVars

\* Sidebar lines 63-69: a click on the header of a brand of the shown hall
ToggleBrand(p) ==
    /\ ~listening
    /\ ~clickPending
    /\ ~isSearchOpen
    /\ LET hall == SelectedHall(hallsRef, appHalls, selectedHallId)
       IN  /\ hall.index # 0
           /\ p \in 1..Len(appHalls[hall.index].brands)
           /\ expandedBrands' =
                  Toggled(expandedBrands, heap[appHalls[hall.index].brands[p]].id)
    /\ UNCHANGED <<appHalls, hallsRef, isLoading, loadPc, selectedHallId,
                   highlightedBrandId, isSearchOpen, rendered>>
    /\ UNCHANGED mapVars
    /\ UNCHANGED loaderVars

\* the map is used right after the load, or after a brand of hall "a" was
\* chosen in the search overlay (App lines 32-36) right after the load
InitMap ==
    \/ LoadedFrom(PlainSkeleton, MapDocument, 768, NullHallId, NullBrandId, <<>>)
    \/ \E brandId \in { BrandId(HallA, BoothC), BrandId(HallA, BoothB) } :
           LoadedFrom(PlainSkeleton, MapDocument, 768, PlainSkeleton.halls[1].id,
                      brandId,
                      SidebarEffects(TRUE, TRUE, brandId, TRUE, <<>>))

NextMap ==
    \/ \E p \in Points : HandleDragStart(p)
    \/ \E p \in Points : HandleDragMove(p)
    \/ HandleDragEnd
    \/ TimerFire
    \/ \E k \in 1..Len(appHalls) : HandleHallClick(k)
    \/ CanvasClick
    \/ HandleZoomIn
    \/ HandleZoomOut
    \/ HandleReset
    \/ CloseSidebar
    \/ RunSidebarEffects

SpecMap == InitMap /\ [][NextMap]_vars

(***************************************************************************)
(* The view of the map: it is dragged, zoomed and reset in a viewport      *)
(* whose width changes; no hall is selected.                               *)
(***************************************************************************)
InitZoom ==
    \E width \in Widths :
        LoadedFrom(PlainSkeleton, MapDocument, width, NullHallId, NullBrandId, <<>>)

NextZoom ==
    \/ \E p \in Points : HandleDragStart(p)
    \/ \E p \in Points : HandleDragMove(p)
    \/ HandleDragEnd
    \/ TimerFire
    \/ CanvasClick
    \/ HandleZoomIn
    \/ HandleZoomOut
    \/ HandleReset
    \/ \E width \in Widths : Resize(width)

SpecZoom == InitZoom /\ [][NextZoom]_vars

(***************************************************************************)
(* The side panel in use: halls are selected on the map by taps, with no   *)
(* pointer-move, and brands in the search overlay; the panel is closed and *)
(* its brands are toggled.                                                 *)
(***************************************************************************)
InitSidebar ==
    \E doc \in UiDocuments :
        LoadedFrom(PlainSkeleton, doc, 768, NullHallId, NullBrandId, <<>>)

NextSidebar ==
    \/ \E p \in Points : HandleDragStart(p)
    \/ HandleDragEnd
    \/ TimerFire
    \/ \E k \in 1..Len(appHalls) : HandleHallClick(k)
    \/ CanvasClick
    \/ CloseSidebar
    \/ OpenSearch
    \/ CloseSearch
    \/ \E k \in 1..Len(appHalls) : \E p \in 1..Len(appHalls[k].brands) :
          HandleBrandSelect(k, p)
    \/ \E p \in 1..MaxRows : ToggleBrand(p)
    \/ RunSidebarEffects

SpecSidebar == InitSidebar /\ [][NextSidebar]_vars

(***************************************************************************)
(* Vocabulary of the properties                                            *)
(***************************************************************************)
\* the call returned from line 82
Succeeded == pc = "done" /\ error = "none"

\* the call returned from the catch block, line 86
Failed == pc = "done" /\ error # "none"

\* the skeleton as it was supplied to the call
Supplied == CHOOSE sk \in Skeletons : sk.halls = skeletonHalls

\* the places (hall position, position in its brands list) of a collection
Places(halls) ==
    UNION { {<<k, p>> : p \in 1..Len(halls[k].brands)} : k \in 1..Len(halls) }

BrandAt(halls, place) == heap[halls[place[1]].brands[place[2]]]

\* the fields of a row by position, and the composite id the row carries
Fields(r) ==
    LET cols == Cols(r)
    IN  [count |-> Len(cols),
         hall |-> Field(cols, 1), booth |-> Field(cols, 2), name |-> Field(cols, 3),
         category |-> Field(cols, 4), model |-> Field(cols, 5),
         tag |-> Field(cols, 6), note |-> Field(cols, 7),
         id |-> Field(cols, 1) \o <<"-">> \o Field(cols, 2)]

\* the fields of every row of the document
RECURSIVE FieldsOfRows(_)
FieldsOfRows(rs) ==
    IF rs = <<>> THEN <<>> ELSE <<Fields(Head(rs))>> \o FieldsOfRows(Tail(rs))

RowFields == FieldsOfRows(rows)

KnownHall(f) == \E k \in 1..Len(skeletonHalls) : skeletonHalls[k].code = f.hall

\* a processed row: at least 3 fields and a hall code of the skeleton
Processed(f) == f.count >= 3 /\ KnownHall(f)

Without(rs, j) == SubSeq(rs, 1, j - 1) \o SubSeq(rs, j + 1, Len(rs))

\* the aggregation state right after line 17
StartState ==
    [updatedHalls |-> [k \in 1..Len(skeletonHalls) |->
                          [skeletonHalls[k] EXCEPT !.brands = <<>>]],
     brandMap |-> <<>>,
     heap |-> Supplied.heap]

AggState == [updatedHalls |-> updatedHalls, brandMap |-> brandMap, heap |-> heap]

(***************************************************************************)
(* C1: after a successful parse no two Brand records of the returned       *)
(* collection have the same id, and all processed rows with the same hall  *)
(* code and booth code are folded into exactly one Brand: the collection   *)
(* holds exactly one Brand carrying their composite id.                    *)
(***************************************************************************)
C1_UniqueBrandIds ==
    Succeeded =>
        LET R == RowFields
        IN  /\ \A p1, p2 \in Places(result.value) :
                   p1 # p2 =>
                       BrandAt(result.value, p1).id # BrandAt(result.value, p2).id
            /\ \A j \in 1..Len(rows) :
                   Processed(R[j]) =>
                       Cardinality({p \in Places(result.value) :
                                       BrandAt(result.value, p).id = R[j].id}) = 1

\* two processed rows of different categories for one hall and booth
C1_Witness ==
    /\ Succeeded
    /\ LET R == RowFields
       IN  \E j1, j2 \in 1..Len(rows) :
               /\ j1 < j2
               /\ Processed(R[j1]) /\ Processed(R[j2])
               /\ R[j1].hall = R[j2].hall
               /\ R[j1].booth = R[j2].booth
               /\ R[j1].category # R[j2].category

(***************************************************************************)
(* C2: for every processed row, the Brand the row creates or updates is in *)
(* the brands list of the hall whose code equals the row's hall code and   *)
(* in no other hall's list, also for codes that contain the separator.     *)
(***************************************************************************)
C2_BrandInRowHall ==
    pc = "rows" =>
        LET R == RowFields
        IN  \A j \in 1..(next - 1) :
                Processed(R[j]) =>
                    \A k \in 1..Len(updatedHalls) :
                        (\E p \in 1..Len(updatedHalls[k].brands) :
                             updatedHalls[k].brands[p] = brandMap[R[j].id])
                        <=> updatedHalls[k].code = R[j].hall

(***************************************************************************)
(* C3: a row whose hall code is the code of no skeleton hall changes       *)
(* nothing: the halls, the brand-identity map and the Brand objects at the *)
(* end of the parse are those of the document without that row.            *)
(***************************************************************************)
C3_UnknownHallDropped ==
    Succeeded =>
        LET R == RowFields
        IN  \A j \in 1..Len(rows) :
                (R[j].count >= 3 /\ ~KnownHall(R[j])) =>
                    /\ AggState = ParseRows(StartState, Without(rows, j))
                    /\ result.value =
                           ParseRows(StartState, Without(rows, j)).updatedHalls

\* a row for an unknown hall was visited between two processed rows
C3_Witness ==
    /\ Succeeded
    /\ LET R == RowFields
       IN  \E j \in 2..(Len(rows) - 1) :
               /\ R[j].count >= 3 /\ ~KnownHall(R[j])
               /\ Processed(R[j - 1]) /\ Processed(R[j + 1])

(***************************************************************************)
(* C4: if the fetch, the body read or a row fails, the call returns the    *)
(* skeleton it was given, every hall and every hall's brands as supplied,  *)
(* also when rows had been aggregated before the failure.                  *)
(***************************************************************************)
C4_FailureReturnsSkeleton ==
    Failed =>
        /\ result.state = "fulfilled"
        /\ result.ref = "skeletonHalls"
        /\ result.value = Supplied.halls
        /\ \A r \in 1..Len(Supplied.heap) : heap[r] = Supplied.heap[r]

\* a row failed after an earlier row had put a Brand into the working copy,
\* and the skeleton had brands of its own
C4_Witness ==
    /\ Failed
    /\ error = "row"
    /\ Places(updatedHalls) # {}
    /\ Supplied.heap # <<>>

(***************************************************************************)
(* C5: a fetch that completes with a non-OK response is treated as a       *)
(* failure: the call returns the unmodified skeleton and the body is not   *)
(* parsed as exhibitor data.                                               *)
(***************************************************************************)
C5_NonOkReturnsSkeleton ==
    (pc = "done" /\ response.received /\ ~response.ok) =>
        /\ result.ref = "skeletonHalls"
        /\ result.value = skeletonHalls

(***************************************************************************)
(* C6: the returned promise never rejects; whenever the call has finished, *)
(* after any outcome of the fetch, the body read and the rows, it is       *)
(* fulfilled with a hall collection.                                       *)
(***************************************************************************)
IsHallCollection(v) ==
    \A k \in 1..Len(v) :
        /\ DOMAIN v[k] = {"id", "code", "floor", "type", "brands"}
        /\ \A p \in 1..Len(v[k].brands) : v[k].brands[p] \in 1..Len(heap)

C6_NeverRejects ==
    /\ result.state # "rejected"
    /\ pc = "done" => (result.state = "fulfilled" /\ IsHallCollection(result.value))

\* the call finished after the body read failed
C6_Witness == pc = "done" /\ error = "text" /\ response.received

(***************************************************************************)
(* C7: a successful parse returns as many halls as the skeleton, in the    *)
(* same order, each with the id, code, floor and type of the skeleton hall *)
(* at its position.                                                        *)
(***************************************************************************)
C7_HallsPreserved ==
    Succeeded =>
        /\ Len(result.value) = Len(Supplied.halls)
        /\ \A k \in 1..Len(Supplied.halls) :
               /\ result.value[k].id = Supplied.halls[k].id
               /\ result.value[k].code = Supplied.halls[k].code
               /\ result.value[k].floor = Supplied.halls[k].floor
               /\ result.value[k].type = Supplied.halls[k].type

\* a successful parse whose brands differ from the skeleton's in every hall
C7_Witness ==
    /\ Succeeded
    /\ \A k \in 1..Len(result.value) :
           /\ result.value[k].brands # <<>>
           /\ result.value[k].brands # Supplied.halls[k].brands

(***************************************************************************)
(* C8: on a successful parse the skeleton's brands are discarded: every    *)
(* Brand of the returned collection was created by a row of the document,  *)
(* and a hall that no processed row targets has no brands.                 *)
(***************************************************************************)
C8_SkeletonBrandsDiscarded ==
    Succeeded =>
        LET R == RowFields
        IN  /\ \A place \in Places(result.value) :
                   /\ result.value[place[1]].brands[place[2]] > Len(Supplied.heap)
                   /\ \E j \in 1..Len(rows) :
                          /\ Processed(R[j])
                          /\ BrandAt(result.value, place).id = R[j].id
                          /\ BrandAt(result.value, place).booth = R[j].booth
                          /\ BrandAt(result.value, place).name = R[j].name
            /\ \A k \in 1..Len(result.value) :
                   (~ \E j \in 1..Len(rows) :
                           Processed(R[j]) /\ R[j].hall = result.value[k].code)
                   => result.value[k].brands = <<>>

\* a skeleton hall had brands, no processed row targeted it, another hall
\* received a Brand
C8_Witness ==
    /\ Succeeded
    /\ \E k \in 1..Len(result.value) :
           /\ Supplied.halls[k].brands # <<>>
           /\ result.value[k].brands = <<>>
    /\ Places(result.value) # {}

(***************************************************************************)
(* Steps of the row loop, for the properties about one row                 *)
(***************************************************************************)
\* the forEach callback ran on rows[next]
RowStep == pc = "rows" /\ pc' = "rows" /\ next' = next + 1

\* the Brand of a row with fields f before the callback (as created, if the
\* row creates it)
BrandBefore(f) ==
    IF f.id \in DOMAIN brandMap
    THEN heap[brandMap[f.id]]
    ELSE [id |-> f.id, booth |-> f.booth, name |-> f.name,
          description |-> <<>>, models |-> <<>>, fullModelList |-> <<>>]

NonEmpty(v) == v # Undefined /\ v # <<>>

(***************************************************************************)
(* C9: a processed row with category "Key" and a non-empty model name      *)
(* appends exactly one entry (name = model field, highlight = tag field,   *)
(* isNewLaunch = true, note = note field) to the brand's models and leaves *)
(* fullModelList and description unchanged; a "Normal" row does the same   *)
(* with isNewLaunch = false on fullModelList, leaving models and           *)
(* description unchanged.  Hence every entry of models has isNewLaunch =   *)
(* true and every entry of fullModelList has isNewLaunch = false.  (The    *)
(* highlight of a row without tag field is the empty string; the note is   *)
(* the 7th field as destructured.)                                         *)
(***************************************************************************)
C9_RowRouting ==
    RowStep =>
        LET f == Fields(rows[next])
            before == BrandBefore(f)
            after == heap'[brandMap'[f.id]]
            entry(flag) == [name |-> f.model,
                            highlight |-> IF f.tag = Undefined THEN <<>> ELSE f.tag,
                            isNewLaunch |-> flag,
                            note |-> f.note]
        IN  (Processed(f) /\ NonEmpty(f.model)) =>
                /\ f.category = <<"K", "e", "y">> =>
                       /\ after.models = Append(before.models, entry(TRUE))
                       /\ after.fullModelList = before.fullModelList
                       /\ after.description = before.description
                /\ f.category = <<"N", "o", "r", "m", "a", "l">> =>
                       /\ after.fullModelList =
                              Append(before.fullModelList, entry(FALSE))
                       /\ after.models = before.models
                       /\ after.description = before.description

C9_Flags ==
    \A id \in DOMAIN brandMap :
        /\ \A e \in 1..Len(heap[brandMap[id]].models) :
               heap[brandMap[id]].models[e].isNewLaunch = TRUE
        /\ \A e \in 1..Len(heap[brandMap[id]].fullModelList) :
               heap[brandMap[id]].fullModelList[e].isNewLaunch = FALSE

C9_CategoryRouting == [](C9_Flags) /\ [][C9_RowRouting]_vars

\* a returned Brand holds a Key entry and a Normal entry
C9_Witness ==
    /\ Succeeded
    /\ \E place \in Places(result.value) :
           /\ BrandAt(result.value, place).models # <<>>
           /\ BrandAt(result.value, place).fullModelList # <<>>

(***************************************************************************)
(* C10: a brand's description is the note of the last row, in document     *)
(* order, that has category "Info", carries the brand's id and has a       *)
(* non-empty note, and is the empty string if there is no such row; an     *)
(* Info row with an empty note leaves the description unchanged, and an    *)
(* Info row never adds a model entry.                                      *)
(***************************************************************************)
InfoNoteRows(R, id, n) ==
    {j \in 1..n : /\ Processed(R[j])
                  /\ R[j].id = id
                  /\ R[j].category = <<"I", "n", "f", "o">>
                  /\ NonEmpty(R[j].note)}

C10_Description ==
    Succeeded =>
        LET R == RowFields
        IN  \A id \in DOMAIN brandMap :
                LET S == InfoNoteRows(R, id, Len(rows))
                IN  heap[brandMap[id]].description =
                        IF S = {} THEN <<>> ELSE R[SetMax(S)].note

C10_InfoRow ==
    RowStep =>
        LET f == Fields(rows[next])
            before == BrandBefore(f)
            after == heap'[brandMap'[f.id]]
        IN  (Processed(f) /\ f.category = <<"I", "n", "f", "o">>) =>
                /\ after.models = before.models
                /\ after.fullModelList = before.fullModelList
                /\ ~NonEmpty(f.note) => after.description = before.description

C10_LastInfoWins == [](C10_Description) /\ [][C10_InfoRow]_vars

\* two Info rows with different notes for one brand, then an Info row with
\* an empty note
C10_Witness ==
    /\ Succeeded
    /\ Len(rows) = 3
    /\ LET R == RowFields
       IN  /\ \A j \in 1..3 :
                  Processed(R[j]) /\ R[j].category = <<"I", "n", "f", "o">>
           /\ R[1].id = R[2].id /\ R[2].id = R[3].id
           /\ R[1].note # <<>> /\ R[2].note # <<>>
           /\ R[1].note # R[2].note
           /\ R[3].note = <<>>

(***************************************************************************)
(* C11: a brand's name and booth are the brand-name and booth fields of    *)
(* the first processed row with the brand's composite id; no later row     *)
(* with that id changes them.                                              *)
(***************************************************************************)
FirstRowOf(R, id) ==
    SetMin({j \in 1..Len(R) : Processed(R[j]) /\ R[j].id = id})

C11_FirstWriteName ==
    Succeeded =>
        LET R == RowFields
        IN  \A id \in DOMAIN brandMap :
                LET first == R[FirstRowOf(R, id)]
                IN  /\ heap[brandMap[id]].name = first.name
                    /\ heap[brandMap[id]].booth = first.booth

\* a later processed row carried the id of an earlier one with another
\* brand name, and with another booth code
C11_Witness ==
    /\ Succeeded
    /\ LET R == RowFields
       IN  /\ \E j1, j2 \in 1..Len(rows) :
                  /\ j1 < j2 /\ Processed(R[j1]) /\ Processed(R[j2])
                  /\ R[j1].id = R[j2].id /\ R[j1].name # R[j2].name
           /\ \E j1, j2 \in 1..Len(rows) :
                  /\ j1 < j2 /\ Processed(R[j1]) /\ Processed(R[j2])
                  /\ R[j1].id = R[j2].id /\ R[j1].booth # R[j2].booth

(***************************************************************************)
(* C12: the first processed row with a composite id creates the Brand      *)
(* whatever its category and appends it to the resolved hall; a row whose  *)
(* category is none of "Info", "Key", "Normal" (absent, or in another      *)
(* letter case) creates the Brand with empty description, models and       *)
(* fullModelList and makes no other change to a new or existing Brand.     *)
(***************************************************************************)
Recognised == { <<"I", "n", "f", "o">>, <<"K", "e", "y">>,
                <<"N", "o", "r", "m", "a", "l">> }

\* the position of the first hall with the given code
ResolvedHall(code) ==
    SetMin({k \in 1..Len(updatedHalls) : updatedHalls[k].code = code})

C12_RowCreates ==
    RowStep =>
        LET f == Fields(rows[next])
            ref == Len(heap) + 1
        IN  Processed(f) =>
                /\ f.id \in DOMAIN brandMap'
                /\ f.id \notin DOMAIN brandMap =>
                       /\ brandMap' = MapSet(brandMap, f.id, ref)
                       /\ Len(heap') = ref
                       /\ heap'[ref].id = f.id
                       /\ heap'[ref].booth = f.booth
                       /\ heap'[ref].name = f.name
                       /\ \A r \in 1..Len(heap) : heap'[r] = heap[r]
                       /\ updatedHalls' =
                              [updatedHalls EXCEPT ![ResolvedHall(f.hall)].brands =
                                                       Append(@, ref)]
                /\ f.category \notin Recognised =>
                       /\ f.id \in DOMAIN brandMap => UNCHANGED <<heap, brandMap,
                                                                  updatedHalls>>
                       /\ f.id \notin DOMAIN brandMap =>
                              /\ heap'[ref].description = <<>>
                              /\ heap'[ref].models = <<>>
                              /\ heap'[ref].fullModelList = <<>>

C12_LazyCreation == [][C12_RowCreates]_vars

\* a row without category created a Brand, and a row with a category in
\* another letter case found an existing Brand that has entries
C12_Witness ==
    /\ pc = "rows" /\ next = 4
    /\ LET R == RowFields
       IN  /\ Processed(R[1]) /\ R[1].category = Undefined
           /\ Processed(R[2]) /\ R[2].id = R[1].id /\ R[2].category = <<"K", "e", "y">>
           /\ Processed(R[3]) /\ R[3].id = R[1].id /\ R[3].category = <<"K", "E", "Y">>
           /\ NonEmpty(R[3].model)
           /\ Len(heap[brandMap[R[1].id]].models) = 1

(***************************************************************************)
(* C13: absent trailing fields are treated as the empty string: for a      *)
(* "Key" or "Normal" row with a model name and fewer than 7 fields the     *)
(* appended entry has highlight = "" when the tag field is absent and      *)
(* note = "" when the note field is absent, never an undefined value.      *)
(***************************************************************************)
C13_AbsentFieldsEmpty ==
    (pc = "rows" /\ next > 1) =>
        LET f == Fields(rows[next - 1])
            brand == heap[brandMap[f.id]]
            list == IF f.category = <<"K", "e", "y">> THEN brand.models
                    ELSE brand.fullModelList
            entry == list[Len(list)]
        IN  (/\ Processed(f)
             /\ f.category \in {<<"K", "e", "y">>, <<"N", "o", "r", "m", "a", "l">>}
             /\ NonEmpty(f.model)
             /\ f.count < 7) =>
                /\ entry.highlight = (IF f.tag = Undefined THEN <<>> ELSE f.tag)
                /\ entry.note = (IF f.note = Undefined THEN <<>> ELSE f.note)

(***************************************************************************)
(* C14: in every hall of the result the brands are in the order in which   *)
(* the first row with each brand's id appears in the document, and the     *)
(* entries of models (of fullModelList) are in the document order of the   *)
(* Key (Normal) rows that produced them.                                   *)
(***************************************************************************)
\* the entries of the rows 1..n with the given id and category, in row order
RECURSIVE EntriesOf(_, _, _, _, _)
EntriesOf(R, id, category, flag, n) ==
    IF n = 0 THEN <<>>
    ELSE EntriesOf(R, id, category, flag, n - 1) \o
         (IF /\ Processed(R[n]) /\ R[n].id = id
             /\ R[n].category = category /\ NonEmpty(R[n].model)
          THEN << [name |-> R[n].model,
                   highlight |-> IF R[n].tag = Undefined THEN <<>> ELSE R[n].tag,
                   isNewLaunch |-> flag,
                   note |-> R[n].note] >>
          ELSE <<>>)

C14_DocumentOrder ==
    Succeeded =>
        LET R == RowFields
        IN  /\ \A k \in 1..Len(result.value) :
                   \A p, q \in 1..Len(result.value[k].brands) :
                       p < q =>
                           FirstRowOf(R, heap[result.value[k].brands[p]].id)
                               < FirstRowOf(R, heap[result.value[k].brands[q]].id)
            /\ \A id \in DOMAIN brandMap :
                   /\ heap[brandMap[id]].models =
                          EntriesOf(R, id, <<"K", "e", "y">>, TRUE, Len(rows))
                   /\ heap[brandMap[id]].fullModelList =
                          EntriesOf(R, id, <<"N", "o", "r", "m", "a", "l">>, FALSE,
                                    Len(rows))

\* a hall with two brands, one of them with two different Key entries
C14_Witness ==
    /\ Succeeded
    /\ \E k \in 1..Len(result.value) :
           /\ Len(result.value[k].brands) >= 2
           /\ \E p \in 1..Len(result.value[k].brands) :
                  LET m == heap[result.value[k].brands[p]].models
                  IN  Len(m) = 2 /\ m[1] # m[2]

(***************************************************************************)
(* C20: a row with fewer than 3 populated (non-empty) fields is ignored:   *)
(* it creates no brand and changes no brand, also when it has 3 or more    *)
(* comma-separated positions of which fewer than 3 are non-empty.          *)
(***************************************************************************)
Populated(r) == Cardinality({k \in 1..Len(Cols(r)) : Cols(r)[k] # <<>>})

C20_SparseRowStep ==
    (RowStep /\ Populated(rows[next]) < 3) => UNCHANGED <<updatedHalls, brandMap, heap>>

C20_SparseRowIgnored == [][C20_SparseRowStep]_vars

(***************************************************************************)
(* C15: two successful runs on the same document text with the same        *)
(* skeleton, the second with the skeleton as the first left it, return     *)
(* structurally identical collections: the same halls, the same brands in  *)
(* the same order with the same field values and model entries.            *)
(***************************************************************************)
C15_IdempotentReparse ==
    (calls > 1 /\ Succeeded /\ previous.succeeded) =>
        View(result.value, heap) = previous.view

\* the second run returned a collection with brands in both halls
C15_Witness ==
    /\ calls = 2 /\ Succeeded /\ previous.succeeded
    /\ \A k \in 1..Len(result.value) : result.value[k].brands # <<>>

(***************************************************************************)
(* Vocabulary of the tokenizer properties                                  *)
(***************************************************************************)
\* the forEach callback has tokenized the row rows[next - 1] into rowCols
Tokenized == next > 1

IsSpace(ch) == ch \in {" ", "\t", "\r", "\n", "\f", VT, NBSP, ZWNBSP, OghamSpace}

CountQuotes(s) == Cardinality({p \in 1..Len(s) : s[p] = "\""})

\* a left-to-right scanner: a double quote toggles the in-quote flag, a comma
\* ends the current field only when the flag is off
RECURSIVE ScanFields(_, _, _, _, _)
ScanFields(row, i, inQuote, current, done) ==
    IF i > Len(row) THEN Append(done, current)
    ELSE IF row[i] = "\""
         THEN ScanFields(row, i + 1, ~inQuote, Append(current, row[i]), done)
    ELSE IF row[i] = "," /\ ~inQuote
         THEN ScanFields(row, i + 1, inQuote, <<>>, Append(done, current))
    ELSE ScanFields(row, i + 1, inQuote, Append(current, row[i]), done)

\* the raw text of the fields of a row, between the separators the code uses
RawFields(row) == SplitAt(row, RowSeparators(row), 1)

\* s without its leading and trailing whitespace
RECURSIVE Unpadded(_)
Unpadded(s) ==
    IF s = <<>> THEN s
    ELSE IF IsSpace(s[1]) THEN Unpadded(Tail(s))
    ELSE IF IsSpace(s[Len(s)]) THEN Unpadded(SubSeq(s, 1, Len(s) - 1))
    ELSE s

\* s is written as a quoted span: it begins and ends with a double quote
QuotedSpan(s) == Len(s) >= 1 /\ s[1] = "\"" /\ s[Len(s)] = "\""

\* the content on which line 29 works: the field without padding and
\* without the quotes that line 25-27 take off
ContentOf(raw) ==
    IF QuotedSpan(Unpadded(raw))
    THEN SubSeq(Unpadded(raw), 2, Len(Unpadded(raw)) - 1)
    ELSE Unpadded(raw)

\* the positions of the second quote of each doubled pair, pairs being
\* taken from the left
RECURSIVE PairSeconds(_, _)
PairSeconds(s, i) ==
    IF i >= Len(s) THEN {}
    ELSE IF s[i] = "\"" /\ s[i + 1] = "\"" THEN {i + 1} \cup PairSeconds(s, i + 2)
    ELSE PairSeconds(s, i + 1)

\* s with the characters at the positions drop left out
RECURSIVE Dropping(_, _, _)
Dropping(s, drop, i) ==
    IF i > Len(s) THEN <<>>
    ELSE (IF i \in drop THEN <<>> ELSE <<s[i]>>) \o Dropping(s, drop, i + 1)

\* each doubled pair replaced by one quote, every other character kept
Collapsed(s) == Dropping(s, PairSeconds(s, 1), 1)

(***************************************************************************)
(* C16: a row whose double quotes are balanced is split at exactly the     *)
(* commas that lie outside every quoted span: the fields are those of the  *)
(* left-to-right scanner that toggles an in-quote flag on each double      *)
(* quote and splits on a comma only when the flag is off.                  *)
(***************************************************************************)
C16_SplitOutsideQuotes ==
    (Tokenized /\ CountQuotes(rows[next - 1]) % 2 = 0) =>
        LET scanned == ScanFields(rows[next - 1], 1, FALSE, <<>>, <<>>)
        IN  /\ Len(rowCols) = Len(scanned)
            /\ RawFields(rows[next - 1]) = scanned
            /\ \A k \in 1..Len(scanned) : rowCols[k] = CleanField(scanned[k])

\* a row with a comma inside a quoted span and a comma outside it
C16_Witness ==
    /\ Tokenized
    /\ rows[next - 1] = <<"a", ",", "\"", ",", "\"">>
    /\ rowCols = << <<"a">>, <<",">> >>

(***************************************************************************)
(* C17: in every field, once the outer quotes are stripped, each doubled   *)
(* double quote of the content is replaced by one double quote and no      *)
(* other character of the content is changed.                              *)
(***************************************************************************)
C17_EscapedQuotes ==
    Tokenized =>
        LET raw == RawFields(rows[next - 1])
        IN  /\ Len(rowCols) = Len(raw)
            /\ \A k \in 1..Len(raw) : rowCols[k] = Collapsed(ContentOf(raw[k]))

\* a field with two doubled quotes next to each other, and a quoted field
\* with a doubled quote inside
C17_Witness ==
    /\ Tokenized
    /\ Len(rowCols) = 1
    /\ rows[next - 1] \in { <<"a", "\"", "\"", "\"", "\"">>,
                            <<"\"", "a", "\"", "\"", "\"">> }
    /\ rowCols[1] \in { <<"a", "\"", "\"">>, <<"a", "\"">> }

(***************************************************************************)
(* C18: tokenizing a row with unbalanced or stray double quotes yields a   *)
(* field sequence, and the only quote characters removed from a field are  *)
(* a matching outer pair that wraps it and one quote of each doubled pair; *)
(* a field that is a single double quote keeps it.                         *)
(***************************************************************************)
\* the content when only a pair of two different quote characters counts
PairContentOf(raw) ==
    IF QuotedSpan(Unpadded(raw)) /\ Len(Unpadded(raw)) >= 2
    THEN SubSeq(Unpadded(raw), 2, Len(Unpadded(raw)) - 1)
    ELSE Unpadded(raw)

C18_StrayQuotesKept ==
    Tokenized =>
        LET raw == RawFields(rows[next - 1])
        IN  /\ Len(rowCols) >= 1
            /\ \A k \in 1..Len(rowCols) : rowCols[k] = Collapsed(PairContentOf(raw[k]))

(***************************************************************************)
(* C19: no field value returned by the tokenizer begins or ends with a     *)
(* whitespace character, also for a quoted span with padding inside the    *)
(* quotes and for the last field of a line that ends in a carriage return. *)
(***************************************************************************)
Padded(s) == s # <<>> /\ (IsSpace(s[1]) \/ IsSpace(s[Len(s)]))

C19_FieldsTrimmed ==
    Tokenized => \A k \in 1..Len(rowCols) : ~Padded(rowCols[k])

(***************************************************************************)
(* C19 as amended: a field value begins or ends with a whitespace          *)
(* character only if the field is written as a quoted span, whose padding  *)
(* inside the quotes is kept; every other field, the last field of a line  *)
(* that ends in a carriage return included, is free of it.                 *)
(***************************************************************************)
C19_TrimmedOutsideQuotes ==
    Tokenized =>
        LET raw == RawFields(rows[next - 1])
        IN  \A k \in 1..Len(rowCols) :
                Padded(rowCols[k]) => QuotedSpan(Unpadded(raw[k]))

\* a line that ends in a carriage return and has padding around its fields
C19_Witness ==
    /\ Tokenized
    /\ rows[next - 1] = <<" ", "a", ",", "a", "\r">>
    /\ rowCols = << <<"a">>, <<"a">> >>

(***************************************************************************)
(* Vocabulary of the line properties                                       *)
(***************************************************************************)
\* the lines of a text, by a scan over its characters: a line ends at each
\* line feed and at the end of the text
RECURSIVE ScanLines(_, _, _, _)
ScanLines(t, i, current, done) ==
    IF i > Len(t) THEN Append(done, current)
    ELSE IF t[i] = "\n" THEN ScanLines(t, i + 1, <<>>, Append(done, current))
    ELSE ScanLines(t, i + 1, Append(current, t[i]), done)

AllSpace(l) == \A p \in 1..Len(l) : IsSpace(l[p])

\* the lines after the first one that hold something else than whitespace
RECURSIVE DropAllSpace(_)
DropAllSpace(ls) ==
    IF ls = <<>> THEN <<>>
    ELSE (IF AllSpace(Head(ls)) THEN <<>> ELSE <<Head(ls)>>) \o DropAllSpace(Tail(ls))

DataLines(t) == DropAllSpace(Tail(ScanLines(t, 1, <<>>, <<>>)))

(***************************************************************************)
(* C21: the rows that are processed are exactly the lines after the first  *)
(* line that are not empty after trimming, in document order: the result   *)
(* is that of the row callback run over these lines from the empty working *)
(* copy, so the first line contributes nothing whatever it holds and blank *)
(* lines after it make no difference.                                      *)
(***************************************************************************)
C21_DataLines ==
    /\ pc \in {"rows", "done"} /\ error # "text" => rows = DataLines(text)
    /\ Succeeded =>
           /\ AggState = ParseRows(StartState, DataLines(text))
           /\ result.value = ParseRows(StartState, DataLines(text)).updatedHalls

\* the first line is a data row of a skeleton hall, blank lines stand before
\* and between two processed rows, and the result has a brand
C21_Witness ==
    /\ Succeeded
    /\ Len(text) >= Len(Header)
    /\ SubSeq(text, 1, Len(Header)) = Header
    /\ Len(ScanLines(text, 1, <<>>, <<>>)) = 4
    /\ Len(rows) = 2
    /\ AllSpace(ScanLines(text, 1, <<>>, <<>>)[3])
    /\ Places(result.value) # {}
    /\ \A r \in 1..Len(heap) : heap[r].name # <<"H">>

(***************************************************************************)
(* C22: a "Key" or "Normal" row whose model name is empty or absent        *)
(* appends nothing to models or fullModelList of any brand, and in every   *)
(* result of a successful parse every entry of models and fullModelList    *)
(* has a non-empty name.                                                   *)
(***************************************************************************)
C22_NoEntryStep ==
    RowStep =>
        LET f == Fields(rows[next])
        IN  (f.category \in {<<"K", "e", "y">>, <<"N", "o", "r", "m", "a", "l">>}
             /\ ~NonEmpty(f.model)) =>
                \A r \in 1..Len(heap') :
                    /\ heap'[r].models =
                           (IF r <= Len(heap) THEN heap[r].models ELSE <<>>)
                    /\ heap'[r].fullModelList =
                           (IF r <= Len(heap) THEN heap[r].fullModelList ELSE <<>>)

C22_NamedEntries ==
    Succeeded =>
        \A place \in Places(result.value) :
            LET brand == BrandAt(result.value, place)
            IN  /\ \A e \in 1..Len(brand.models) : NonEmpty(brand.models[e].name)
                /\ \A e \in 1..Len(brand.fullModelList) :
                       NonEmpty(brand.fullModelList[e].name)

C22_EmptyModelName == [](C22_NamedEntries) /\ [][C22_NoEntryStep]_vars

\* a Key row with an empty model name and a Normal row without the field
\* were processed for a brand that also got an entry
C22_Witness ==
    /\ Succeeded
    /\ LET R == RowFields
       IN  /\ \E j \in 1..Len(rows) :
                  /\ Processed(R[j]) /\ R[j].category = <<"K", "e", "y">>
                  /\ R[j].model = <<>>
           /\ \E j \in 1..Len(rows) :
                  /\ Processed(R[j]) /\ R[j].category = <<"N", "o", "r", "m", "a", "l">>
                  /\ R[j].model = Undefined
           /\ \E place \in Places(result.value) :
                  Len(BrandAt(result.value, place).models) = 1

(***************************************************************************)
(* C23: while the rows of one parse are processed, each hall's brands      *)
(* list and each brand's models and fullModelList only grow at the end:    *)
(* the list before a row is a prefix of the list after it, no brand and no *)
(* entry is removed, reordered or modified, and of a brand's own fields    *)
(* only description can be given another value by a later row.             *)
(***************************************************************************)
IsPrefix(a, b) == Len(a) <= Len(b) /\ SubSeq(b, 1, Len(a)) = a

C23_AppendStep ==
    (pc = "rows" /\ pc' = "rows") =>
        /\ Len(updatedHalls') = Len(updatedHalls)
        /\ \A k \in 1..Len(updatedHalls) :
               /\ IsPrefix(updatedHalls[k].brands, updatedHalls'[k].brands)
               /\ [updatedHalls'[k] EXCEPT !.brands = <<>>] =
                      [updatedHalls[k] EXCEPT !.brands = <<>>]
        /\ Len(heap') >= Len(heap)
        /\ \A r \in 1..Len(heap) :
               /\ IsPrefix(heap[r].models, heap'[r].models)
               /\ IsPrefix(heap[r].fullModelList, heap'[r].fullModelList)
               /\ heap'[r].id = heap[r].id
               /\ heap'[r].booth = heap[r].booth
               /\ heap'[r].name = heap[r].name
        /\ \A id \in DOMAIN brandMap :
               id \in DOMAIN brandMap' /\ brandMap'[id] = brandMap[id]

C23_AppendOnly == [][C23_AppendStep]_vars

\* a hall that received two brands and a brand that received two entries
C23_Witness ==
    /\ Succeeded
    /\ \E k \in 1..Len(result.value) : Len(result.value[k].brands) >= 2
    /\ \E place \in Places(result.value) :
           /\ Len(BrandAt(result.value, place).models) >= 2
           /\ BrandAt(result.value, place).models[1] #
                  BrandAt(result.value, place).models[2]

(***************************************************************************)
(* C26: parseBrandsCSV never modifies its input: no step of a call,        *)
(* successful or failed, changes the skeleton array, a skeleton hall, a    *)
(* skeleton hall's brands list or a Brand that list refers to, and the     *)
(* collection returned by a successful parse is another array whose brands *)
(* lists hold nothing of the skeleton's lists.                             *)
(***************************************************************************)
SkeletonRefs ==
    UNION { {Supplied.halls[k].brands[p] : p \in 1..Len(Supplied.halls[k].brands)} :
                k \in 1..Len(Supplied.halls) }

C26_FrameStep ==
    /\ skeletonHalls' = skeletonHalls
    /\ Len(heap') >= Len(Supplied.heap)
    /\ \A r \in 1..Len(Supplied.heap) : heap'[r] = heap[r]

C26_NothingShared ==
    Succeeded =>
        /\ result.ref = "updatedHalls"
        /\ \A place \in Places(result.value) :
               result.value[place[1]].brands[place[2]] \notin SkeletonRefs

C26_InputUnchanged == [](C26_NothingShared) /\ [][C26_FrameStep]_vars

\* a successful parse of a row that carries the id of a Brand of the skeleton
C26_Witness ==
    /\ Succeeded
    /\ SkeletonRefs # {}
    /\ \E id \in DOMAIN brandMap :
           \E r \in SkeletonRefs : heap[r].id = id /\ brandMap[id] # r

(***************************************************************************)
(* C24: the hall collection in the application state is at every moment    *)
(* either the initial skeleton or the complete collection returned by a    *)
(* finished call; a collection with only some rows aggregated is never in  *)
(* the state, and the state is set at most once per load.                  *)
(***************************************************************************)
C24_Snapshot ==
    \/ /\ loadPc = "await"
       /\ hallsRef = "skeletonHalls"
       /\ appHalls = skeletonHalls
       /\ View(appHalls, heap) = View(Supplied.halls, Supplied.heap)
    \/ /\ loadPc = "done"
       /\ pc = "done"
       /\ hallsRef = result.ref
       /\ appHalls = result.value
       /\ Succeeded => AggState = ParseRows(StartState, rows)

C24_SetOnce ==
    /\ (appHalls' # appHalls \/ hallsRef' # hallsRef) =>
           (loadPc = "await" /\ loadPc' = "done")
    /\ loadPc = "done" => loadPc' = "done"

C24_AtomicPublication == [](C24_Snapshot) /\ [][C24_SetOnce]_vars

\* the result of a parse of two rows is in the state
C24_Witness ==
    /\ loadPc = "done"
    /\ Succeeded
    /\ Len(rows) >= 2
    /\ hallsRef = "updatedHalls"
    /\ Places(appHalls) # {}

(***************************************************************************)
(* C25: isLoading is true at the start and as long as the fetch has not    *)
(* settled; once it is false it stays false, and then the hall collection  *)
(* is the value the call returned; and if the fetch settles, resolved or   *)
(* rejected, isLoading eventually becomes false.                           *)
(***************************************************************************)
FetchSettled == pc # "fetch"

\* the fetch has settled and, if it resolved, the body read has settled too
BodySettled == pc \notin {"fetch", "text"}

Loaded ==
    /\ ~isLoading
    /\ pc = "done"
    /\ appHalls = result.value
    /\ hallsRef = result.ref

C25_LoadingState ==
    /\ ~FetchSettled => isLoading
    /\ ~isLoading => Loaded

C25_StaysLoaded == ~isLoading => ~isLoading'

C25_LoadingEnds ==
    /\ [](C25_LoadingState)
    /\ [][C25_StaysLoaded]_vars
    /\ (FetchSettled ~> Loaded)

(***************************************************************************)
(* C25 as amended: the same, with isLoading becoming false eventually once *)
(* the fetch has rejected or the fetch and the read of the response body   *)
(* have both settled; while the body read is pending isLoading stays true. *)
(***************************************************************************)
C25_LoadingEndsAfterBody ==
    /\ [](C25_LoadingState)
    /\ [](~BodySettled => isLoading)
    /\ [][C25_StaysLoaded]_vars
    /\ (BodySettled ~> Loaded)

\* the fetch rejected and the skeleton, with the brands it had, is shown
C25_Witness ==
    /\ ~isLoading
    /\ error = "fetch"
    /\ hallsRef = "skeletonHalls"
    /\ Places(appHalls) # {}

(***************************************************************************)
(* The map in use.                                                         *)
(***************************************************************************)
\* the click that ends a gesture is dispatched in this step
ClickStep == clickPending /\ ~clickPending'

\* onHallSelect (App lines 27-30) was not called in this step, as far as the
\* state shows: the selection and the highlight are what they were
NotSelectedHere == UNCHANGED <<selectedHallId, highlightedBrandId>>

C27_ClickAfterDrag == ClickStep /\ moved => NotSelectedHere

\* C27: the click that ends a gesture whose pointer moved more than 5 px
\* from its pointer-down position never selects a hall, in every
\* interleaving of pointer-down, pointer-move, pointer-up, click and the
\* timers.
C27_DragNeverSelects == [][C27_ClickAfterDrag]_vars

\* the selected hall, if any, is a hall of the shown data with a brand
SelectedHasBrands ==
    \/ selectedHallId = NullHallId
    \/ \E k \in 1..Len(appHalls) :
          appHalls[k].id = selectedHallId /\ Len(appHalls[k].brands) > 0

C28_NoEmptyHall == SelectedHasBrands

\* another hall gets selected only by a click on the map, and a click that
\* changes the selection or the highlight leaves a hall with a brand
\* selected and no brand highlighted
C28_SelectStep ==
    /\ selectedHallId' \notin {selectedHallId, NullHallId} => ClickStep
    /\ ClickStep /\ ~NotSelectedHere =>
          /\ \E k \in 1..Len(appHalls) :
                appHalls[k].id = selectedHallId' /\ Len(appHalls[k].brands) > 0
          /\ highlightedBrandId' = NullBrandId

\* C28: through clicks, drags and zoom operations on the map, with no
\* choice made in the search overlay meanwhile, the selected hall is none
\* or a hall that had a brand when it was clicked, and selecting a hall on
\* the map sets highlightedBrandId to null.
C28_MapSelection == [](C28_NoEmptyHall) /\ [][C28_SelectStep]_vars

\* a click on the map has selected hall "a" while brand a-c, chosen in the
\* search overlay earlier, was highlighted; hall "a-b" has no brand
C28_Witness ==
    /\ selectedHallId = PlainSkeleton.halls[1].id
    /\ highlightedBrandId = NullBrandId
    /\ IsExpanded(expandedBrands, BrandId(HallA, BoothC))
    /\ ~clickPending
    /\ timers > 0
    /\ Len(appHalls[2].brands) = 0

C30_ScaleInRange == 30 <= scale /\ scale <= 300

\* what each of the three buttons does to the scale and the position, and
\* that nothing else changes the scale
C30_ZoomStep ==
    /\ HandleZoomIn => scale' = (IF scale + 20 > 300 THEN 300 ELSE scale + 20)
    /\ HandleZoomOut => scale' = (IF scale - 20 < 30 THEN 30 ELSE scale - 20)
    /\ HandleReset => /\ scale' = (IF innerWidth < 768 THEN 34 ELSE 75)
                      /\ position' = <<120, 80>>
    /\ scale' # scale => HandleZoomIn \/ HandleZoomOut \/ HandleReset

\* C30: the scale, in hundredths, stays within [30, 300]; zoom-in adds 20
\* capped at 300, zoom-out subtracts 20 floored at 30, and reset gives the
\* scale 34 or 75 by the viewport width and the position (120, 80), whatever
\* came before.
C30_ScaleBounds == [](C30_ScaleInRange) /\ [][C30_ZoomStep]_vars

\* zoom-in has hit the cap, which no sum 34 + 20 n or 75 + 20 n equals, on a
\* narrow viewport with the map dragged away from its initial position
C30_Witness ==
    /\ scale = 300
    /\ innerWidth = 767
    /\ position # InitialPosition
    /\ ~listening

(***************************************************************************)
(* The side panel in use.                                                  *)
(***************************************************************************)
\* the ids of the brands of the shown data
ShownBrandIds ==
    UNION { { heap[appHalls[k].brands[p]].id : p \in 1..Len(appHalls[k].brands) } :
            k \in 1..Len(appHalls) }

\* the effects of a render run in this step: what the side panel has
\* reacted to changes
EffectsStep == rendered' # rendered

\* the effects react to a change of both the hall and the highlight, made by
\* a choice in the search overlay: the highlighted brand ends expanded and
\* every other brand collapsed
C29_SelectBoth ==
    /\ EffectsStep
    /\ rendered'.hall # rendered.hall
    /\ rendered'.hall.index # 0
    /\ rendered'.highlighted # rendered.highlighted
    /\ rendered'.highlighted # NullBrandId
    => \A b \in ShownBrandIds :
          IsExpanded(expandedBrands', b) <=> b = rendered'.highlighted

\* the effects react to a change of the shown hall: the brands that are not
\* highlighted end collapsed
C29_HallChange ==
    EffectsStep /\ rendered'.hall # rendered.hall
    => \A b \in ShownBrandIds \ {rendered'.highlighted} :
          ~IsExpanded(expandedBrands', b)

\* C29: when a brand chosen in the search overlay changes both the selected
\* hall and the highlighted brand, the side panel ends, once its effects
\* have run, with exactly the highlighted brand expanded: the reset on the
\* hall change comes first and does not erase the expansion of the
\* highlighted brand; and any later change of the selected hall collapses
\* every brand but the highlighted one.
C29_ExpandHighlighted == [][C29_SelectBoth /\ C29_HallChange]_vars

\* the brand of hall "a-b" was chosen in the search overlay while hall "a"
\* was not the shown hall any more, or never was; it is the one expanded
C29_Witness ==
    /\ selectedHallId = PlainSkeleton.halls[2].id
    /\ highlightedBrandId = BrandId(HallAB, BoothC)
    /\ ~isSearchOpen
    /\ ~EffectsDue
    /\ \A b \in ShownBrandIds : IsExpanded(expandedBrands, b) <=> b = highlightedBrandId
    /\ Cardinality(ShownBrandIds) = 3

====
